---- MODULE Spec2Model ----
(***************************************************************************)
(* Model of the EnOcean ESP3 protocol engine (crate `enocean`):            *)
(*   - frame.rs    ESP3Frame::read_from / ESP3FrameRef::write_to           *)
(*   - enocean.rs  esp3_of_enocean_message / enocean_message_of_esp3       *)
(*   - packet.rs   Packet / Response codec                                 *)
(*   - port.rs     Port (blocking link with a pending queue)               *)
(*   - communicator.rs  EnoceanCommunicator (I/O thread main loop)         *)
(*   - eep.rs      equipment profiles: payload parsing, command telegrams  *)
(* Bytes are naturals 0..255.  Rust slices are 0-based; TLA+ sequences are *)
(* 1-based, so the helpers At and Slice take Rust indices.                 *)
(***************************************************************************)
EXTENDS Integers, Sequences, FiniteSets, TLC

VARIABLES
    pc,        \* which harness step comes next
    call,      \* ESP3FrameRef handed to write_to / assemble
    noise,     \* what the line does to the written bytes
    frame,     \* the ESP3Frame built by to_owned
    writer,    \* Vec<u8> that write_to wrote into
    reader,    \* unconsumed part of the &[u8] reader
    result,    \* outcome of the last ESP3Frame::read_from call
    nread,     \* number of read_from calls made
    em,        \* EnoceanMessage given to esp3_of_enocean_message
    parsed,    \* outcome of esp3_of_enocean_message
    packet,    \* outcome of Response::decode / Packet::decode
    pkt,       \* Packet given to Packet::encode
    back,      \* outcome of enocean_message_of_esp3 on the parsed ESP3
    req,       \* telegram or command request given to the eep functions
    fields,    \* outcome of parse_erp1_payload
    port,      \* Port.port: bytes and I/O events the transport will deliver
    rxlog,     \* everything the transport was ever given to deliver
    sent,      \* what the Port wrote to the transport, one entry per frame
    gateway,   \* number of written commands the gateway has answered
    queue,     \* Port.queue
    wp,        \* the running or last call of a Port operation
    comm       \* state of the communicator I/O thread and its channels

vars == <<pc, call, noise, frame, writer, reader, result, nread, em, parsed,
          packet, pkt, back, req, fields, port, rxlog, sent, gateway, queue,
          wp, comm>>

frameVars == <<call, noise, frame, writer, reader, result, nread>>
msgVars   == <<em, parsed, packet, pkt, back, req, fields>>
portVars  == <<port, rxlog, sent, gateway, queue, wp>>

-----------------------------------------------------------------------------
(* Rust-style indexing                                                     *)

\* s[i] with a 0-based index
At(s, i) == s[i + 1]

\* s[a..b] with 0-based, end-exclusive bounds (the caller checks a <= b <= len)
Slice(s, a, b) == SubSeq(s, a + 1, b)

\* s[a..]
From(s, a) == SubSeq(s, a + 1, Len(s))

\* slice indexing s[a..b] panics when a > b or b > len
SliceOk(s, a, b) == a <= b /\ b <= Len(s)

Zeros(n) == [i \in 1..n |-> 0]

-----------------------------------------------------------------------------
(* CRC8                                                                    *)

RECURSIVE BitXor(_, _)
BitXor(a, b) ==
    IF a = 0 THEN b
    ELSE IF b = 0 THEN a
    ELSE (((a % 2) + (b % 2)) % 2) + 2 * BitXor(a \div 2, b \div 2)

CRC_TABLE == <<
        0,   7,  14,   9,  28,  27,  18,  21,  56,  63,  54,  49,  36,  35,  42,  45,
      112, 119, 126, 121, 108, 107,  98, 101,  72,  79,  70,  65,  84,  83,  90,  93,
      224, 231, 238, 233, 252, 251, 242, 245, 216, 223, 214, 209, 196, 195, 202, 205,
      144, 151, 158, 153, 140, 139, 130, 133, 168, 175, 166, 161, 180, 179, 186, 189,
      199, 192, 201, 206, 219, 220, 213, 210, 255, 248, 241, 246, 227, 228, 237, 234,
      183, 176, 185, 190, 171, 172, 165, 162, 143, 136, 129, 134, 147, 148, 157, 154,
       39,  32,  41,  46,  59,  60,  53,  50,  31,  24,  17,  22,   3,   4,  13,  10,
       87,  80,  89,  94,  75,  76,  69,  66, 111, 104,  97, 102, 115, 116, 125, 122,
      137, 142, 135, 128, 149, 146, 155, 156, 177, 182, 191, 184, 173, 170, 163, 164,
      249, 254, 247, 240, 229, 226, 235, 236, 193, 198, 207, 200, 221, 218, 211, 212,
      105, 110, 103,  96, 117, 114, 123, 124,  81,  86,  95,  88,  77,  74,  67,  68,
       25,  30,  23,  16,   5,   2,  11,  12,  33,  38,  47,  40,  61,  58,  51,  52,
       78,  73,  64,  71,  82,  85,  92,  91, 118, 113, 120, 127, 106, 109, 100,  99,
       62,  57,  48,  55,  34,  37,  44,  43,   6,   1,   8,  15,  26,  29,  20,  19,
      174, 169, 160, 167, 178, 181, 188, 187, 150, 145, 152, 159, 138, 141, 132, 131,
      222, 217, 208, 215, 194, 197, 204, 203, 230, 225, 232, 239, 250, 253, 244, 243 >>

\* The loop body of compute_crc8: one table lookup per byte
crc_step(checksum, byte) == CRC_TABLE[BitXor(checksum % 256, byte % 256) + 1]

\* The loop of compute_crc8 over msg[lo..hi] (1-based, inclusive), folded
\* left to right; the range is halved only to keep the evaluation shallow
RECURSIVE crc_fold(_, _, _, _)
crc_fold(checksum, msg, lo, hi) ==
    IF lo > hi \/ checksum \notin 0..255 THEN checksum
    ELSE IF lo = hi THEN crc_step(checksum, msg[lo])
    ELSE LET mid  == (lo + hi) \div 2
         IN  crc_fold(crc_fold(checksum, msg, lo, mid), msg, mid + 1, hi)

\* enocean::compute_crc8
compute_crc8(msg) == crc_fold(0, msg, 1, Len(msg))

\* crc8::CRC8 accumulator: start from a slice, extend with another, finish
CRC8_from(bytes) == crc_fold(0, bytes, 1, Len(bytes))
CRC8_extend(acc, bytes) == crc_fold(acc, bytes, 1, Len(bytes))

\* crc8::compute_crc8
crc8_compute_crc8(bytes) == CRC8_from(bytes)

-----------------------------------------------------------------------------
(* frame.rs                                                                *)

SYNC == 85          \* 0x55

\* Transport events travel in the byte stream as values that are no byte.
IOERR == 256      \* the transport read fails with an I/O error
TIMEOUT == 257    \* the transport read times out with no data (io::ErrorKind::TimedOut)

IsByte(x) == x < 256

\* ESP3FrameRef::write_to: the bytes written for (packet_type, data, optional_data)
write_to(ref) ==
    LET data_len  == Len(ref.data) % 65536            \* as u16
        data_high == (data_len \div 256) % 256
        data_low  == data_len % 256
        opt_len   == Len(ref.optional_data) % 256     \* as u8
        hdr4      == <<data_high, data_low, opt_len, ref.packet_type>>
        header    == <<SYNC>> \o hdr4 \o <<CRC8_from(hdr4)>>
        data_crc  == CRC8_extend(CRC8_from(ref.data), ref.optional_data)
    IN  header \o ref.data \o ref.optional_data \o <<data_crc>>

\* ESP3FrameRef::to_owned
to_owned(ref) ==
    [ packet_type          |-> ref.packet_type,
      data_length          |-> Len(ref.data),
      optional_data_length |-> Len(ref.optional_data),
      frame                |-> write_to(ref) ]

\* ESP3Frame::assemble
assemble(packet_type, data, optional_data) ==
    to_owned([packet_type |-> packet_type, data |-> data,
              optional_data |-> optional_data])

\* ESP3Frame::data, ESP3Frame::optional_data, ESP3Frame::as_ref
FrameData(f) == Slice(f.frame, 6, 6 + f.data_length)
FrameOptionalData(f) ==
    Slice(f.frame, 6 + f.data_length, 6 + f.data_length + f.optional_data_length)
as_ref(f) ==
    [ packet_type |-> f.packet_type, data |-> FrameData(f),
      optional_data |-> FrameOptionalData(f) ]

NoFrame == [ packet_type |-> 0, data_length |-> 0, optional_data_length |-> 0,
             frame |-> <<>> ]

\* The bytes a reader has buffered: everything before the next transport event.
Avail(items) ==
    LET events == { i \in 1..Len(items) : ~IsByte(items[i]) } IN
    IF events = {} THEN items
    ELSE SubSeq(items, 1, (CHOOSE i \in events : \A j \in events : i <= j) - 1)

ReadResult(kind, f, crc, io, rest, skipped) ==
    [ kind |-> kind, frame |-> f, data_crc |-> crc, io |-> io,
      rest |-> rest, skipped |-> skipped ]

\* ReadBody leaving a frame with a bad data CRC in the reader
ReadBody_DataCrcKeepsBytes(items, skipped) ==
    LET header       == Avail(items)
        total_length == 6 + At(header, 1) * 256 + At(header, 2) + At(header, 3) + 1
    IN  IF Len(header) >= total_length
        THEN LET bytes    == Slice(header, 0, total_length)
                 data_crc == crc8_compute_crc8(From(bytes, 6))
             IN  IF data_crc # 0
                 THEN ReadResult("DataCRC", [NoFrame EXCEPT !.frame = bytes],
                                 data_crc, 0, items, skipped)
                 ELSE ReadResult("Ok",
                        [ packet_type          |-> At(header, 4),
                          data_length          |-> At(header, 1) * 256 + At(header, 2),
                          optional_data_length |-> At(header, 3),
                          frame                |-> bytes ],
                        0, 0, From(items, total_length), skipped)
        ELSE IF Len(header) < Len(items)
        THEN ReadResult("IOError", NoFrame, 0, At(items, Len(header)),
                        From(items, Len(header) + 1), skipped)
        ELSE ReadResult("IOError", NoFrame, 0, 0, <<>>, skipped)

\* ReadBody leaving the trailing CRC byte of the frame in the reader
ReadBody_LeavesCrcByte(items, skipped) ==
    LET header       == Avail(items)
        total_length == 6 + At(header, 1) * 256 + At(header, 2) + At(header, 3) + 1
    IN  IF Len(header) >= total_length
        THEN LET bytes    == Slice(header, 0, total_length)
                 rest     == From(items, total_length - 1)
                 data_crc == crc8_compute_crc8(From(bytes, 6))
             IN  IF data_crc # 0
                 THEN ReadResult("DataCRC", [NoFrame EXCEPT !.frame = bytes],
                                 data_crc, 0, rest, skipped)
                 ELSE ReadResult("Ok",
                        [ packet_type          |-> At(header, 4),
                          data_length          |-> At(header, 1) * 256 + At(header, 2),
                          optional_data_length |-> At(header, 3),
                          frame                |-> bytes ],
                        0, 0, rest, skipped)
        ELSE IF Len(header) < Len(items)
        THEN ReadResult("IOError", NoFrame, 0, At(items, Len(header)),
                        From(items, Len(header) + 1), skipped)
        ELSE ReadResult("IOError", NoFrame, 0, 0, <<>>, skipped)

\* read_from, lines 106-122: the header at the front of buf is CRC-valid
ReadBody(items, skipped) ==
    LET header               == Avail(items)
        data_length          == At(header, 1) * 256 + At(header, 2)
        optional_data_length == At(header, 3)
        packet_type          == At(header, 4)
        total_length         == 6 + data_length + optional_data_length + 1
    IN  IF Len(header) >= total_length
        THEN LET bytes    == Slice(header, 0, total_length)
                 rest     == From(items, total_length)
                 data_crc == crc8_compute_crc8(From(bytes, 6))
             IN  IF data_crc # 0
                 THEN ReadResult("DataCRC", [NoFrame EXCEPT !.frame = bytes],
                                 data_crc, 0, rest, skipped)
                 ELSE ReadResult("Ok",
                        [ packet_type          |-> packet_type,
                          data_length          |-> data_length,
                          optional_data_length |-> optional_data_length,
                          frame                |-> bytes ],
                        0, 0, rest, skipped)
        \* read_exact runs out of bytes: the transport event it meets, or
        \* UnexpectedEof at the end of the stream, comes back as IOError
        ELSE IF Len(header) < Len(items)
        THEN ReadResult("IOError", NoFrame, 0, At(items, Len(header)),
                        From(items, Len(header) + 1), skipped)
        ELSE ReadResult("IOError", NoFrame, 0, 0, <<>>, skipped)

\* SyncPass without the header CRC check
SyncPass_NoHeaderCrc(buf) ==
    IF Len(buf) = 0 THEN "eof"
    ELSE IF At(buf, 0) # SYNC THEN "skip"
    ELSE IF Len(buf) < 6 THEN "spin"
    ELSE "header"

\* SyncPass giving up at a 0x55 whose header CRC fails, instead of skipping it
SyncPass_HeaderCrcFatal(buf) ==
    IF Len(buf) = 0 THEN "eof"
    ELSE IF At(buf, 0) # SYNC THEN "skip"
    ELSE IF Len(buf) < 6 THEN "spin"
    ELSE IF crc8_compute_crc8(Slice(buf, 1, 6)) # 0 THEN "eof"
    ELSE "header"

\* SyncPass returning at a first byte that is not 0x55, instead of skipping it
SyncPass_SyncByteFatal(buf) ==
    IF Len(buf) = 0 THEN "eof"
    ELSE IF At(buf, 0) # SYNC THEN "eof"
    ELSE IF Len(buf) < 6 THEN "spin"
    ELSE IF crc8_compute_crc8(Slice(buf, 1, 6)) # 0 THEN "skip"
    ELSE "header"

\* One pass of the synchronization loop (lines 88-104) on the buffered bytes
\* buf: "skip" stands for consume(1) followed by continue
SyncPass(buf) ==
    IF Len(buf) = 0 THEN "eof"
    ELSE IF At(buf, 0) # SYNC THEN "skip"
    ELSE IF Len(buf) < 6 THEN "spin"
    ELSE IF crc8_compute_crc8(Slice(buf, 1, 6)) # 0 THEN "skip"
    ELSE "header"

\* The number of passes that skip one byte before a pass does something else.
\* Skipping only shortens buf from the front, so the pass made after k skips
\* is SyncPass(From(buf, k)).
SkipCount(buf) ==
    CHOOSE k \in 0..Len(buf) :
        /\ SyncPass(From(buf, k)) # "skip"
        /\ \A j \in 0..(k - 1) : SyncPass(From(buf, j)) = "skip"

\* read_from, lines 88-104: the synchronization loop, then the body
read_from_loop(items) ==
    LET buf     == Avail(items)
        skipped == SkipCount(buf)
        at      == From(items, skipped)
        pass    == SyncPass(From(buf, skipped))
    IN  CASE pass = "header" -> ReadBody(at, skipped)
          \* `continue` with nothing consumed: fill_buf hands back the same
          \* buffer, so every later pass is this pass again and the call
          \* never returns
          [] pass = "spin"   -> ReadResult("Hang", NoFrame, 0, 0, at, skipped)
          \* fill_buf on an empty buffer reads the transport
          [] pass = "eof" /\ at # <<>> ->
                 ReadResult("IOError", NoFrame, 0, Head(at), Tail(at), skipped)
          [] pass = "eof" /\ at = <<>> ->
                 ReadResult("EOF", NoFrame, 0, 0, at, skipped)

\* ESP3Frame::read_from
read_from(items) == read_from_loop(items)

-----------------------------------------------------------------------------
(* enocean.rs                                                              *)

\* enum PacketType, by discriminant
PT_RadioErp1 == 1
PT_Undefined == 255

\* enum Rorg, by discriminant
Rorg_Rps       == 1
Rorg_Bs4       == 165
Rorg_Vld       == 210
Rorg_Undefined == 255

\* get_packet_type: the byte values it maps to a PacketType
KnownPacketTypes == {1, 2, 3, 4, 5, 6, 7, 9, 10, 16, 17}

\* get_radio_organization, result by discriminant of enum Rorg
get_radio_organization(rorg_byte) ==
    CASE rorg_byte = 246 -> Rorg_Rps        \* 0xF6 => Rorg::Rps = 0x01
      [] rorg_byte \in {213, 165, 210, 209, 166, 212, 198, 199, 167, 197, 48, 49}
                         -> rorg_byte
      [] OTHER           -> Rorg_Undefined

\* get_return_code, result by discriminant of enum ReturnCode
get_return_code(rc_byte) == IF rc_byte \in 0..7 THEN rc_byte ELSE 255

ParseErr(kind, byte_index, e) ==
    [ kind |-> "Err", err |-> kind, byte_index |-> byte_index, packet |-> e ]

ParsePanic == [ kind |-> "Panic" ]

\* the RadioErp1 arm taking sender_id from the front of the data section
Erp1Arm_SenderAtFront(e, data_length, optionnal_data_length, crc_header, crc_data) ==
    IF \/ ~SliceOk(e, 7, 1 + data_length)
       \/ ~SliceOk(e, 7 + data_length, 11 + data_length)
       \/ 12 + data_length >= Len(e)
    THEN ParsePanic
    ELSE [ kind |-> "Ok",
           esp3 |->
             [ data_length           |-> data_length,
               optionnal_data_length |-> optionnal_data_length,
               packet_type           |-> PT_RadioErp1,
               data |-> [ type      |-> "Erp1Data",
                          rorg      |-> get_radio_organization(At(e, 6)),
                          sender_id |-> Slice(e, 7, 11),
                          status    |-> At(e, 5 + data_length),
                          payload   |-> Slice(e, 7, 1 + data_length) ],
               opt_data |-> [ type           |-> "Erp1OptData",
                              subtel_num     |-> At(e, 6 + data_length),
                              destination_id |-> Slice(e, 7 + data_length, 11 + data_length),
                              rssi           |-> At(e, 11 + data_length),
                              security_lvl   |-> At(e, 12 + data_length) ],
               crc_header |-> crc_header,
               crc_data   |-> crc_data ] ]

\* esp3_of_enocean_message, lines 449-472: the RadioErp1 arm
Erp1Arm(e, data_length, optionnal_data_length, crc_header, crc_data) ==
    IF \/ ~SliceOk(e, 7, 1 + data_length)                 \* payload
       \/ ~SliceOk(e, 7 + data_length, 11 + data_length)  \* destination_id
       \/ 12 + data_length >= Len(e)                      \* security_lvl, rssi
    THEN ParsePanic
    ELSE [ kind |-> "Ok",
           esp3 |->
             [ data_length           |-> data_length,
               optionnal_data_length |-> optionnal_data_length,
               packet_type           |-> PT_RadioErp1,
               data |-> [ type      |-> "Erp1Data",
                          rorg      |-> get_radio_organization(At(e, 6)),
                          sender_id |-> Slice(e, 1 + data_length, 5 + data_length),
                          status    |-> At(e, 5 + data_length),
                          payload   |-> Slice(e, 7, 1 + data_length) ],
               opt_data |-> [ type           |-> "Erp1OptData",
                              subtel_num     |-> At(e, 6 + data_length),
                              destination_id |-> Slice(e, 7 + data_length, 11 + data_length),
                              rssi           |-> At(e, 11 + data_length),
                              security_lvl   |-> At(e, 12 + data_length) ],
               crc_header |-> crc_header,
               crc_data   |-> crc_data ] ]

\* esp3_of_enocean_message, lines 473-483: the Response arm.  packet_type is
\* assigned in the RadioErp1 arm only and keeps its initial value here.
ResponseArm(e, data_length, optionnal_data_length, crc_header, crc_data) ==
    IF data_length > 1 /\ ~SliceOk(e, 7, data_length)
    THEN ParsePanic
    ELSE [ kind |-> "Ok",
           esp3 |->
             [ data_length           |-> data_length,
               optionnal_data_length |-> optionnal_data_length,
               packet_type           |-> PT_Undefined,
               data |-> [ type        |-> "ResponseData",
                          return_code |-> get_return_code(At(e, 6)),
                          response_payload |->
                              IF data_length > 1
                              THEN [some |-> TRUE, v |-> Slice(e, 7, data_length)]
                              ELSE [some |-> FALSE, v |-> <<>>] ],
               opt_data   |-> [ type |-> "None" ],
               crc_header |-> crc_header,
               crc_data   |-> crc_data ] ]

\* esp3_of_enocean_message, lines 484-493: every other known packet type
RawArm(e, data_length, optionnal_data_length, crc_header, crc_data) ==
    [ kind |-> "Ok",
      esp3 |->
        [ data_length           |-> data_length,
          optionnal_data_length |-> optionnal_data_length,
          packet_type           |-> PT_Undefined,
          data     |-> [ type |-> "RawData",
                         raw_data |-> Slice(e, 6, 6 + data_length) ],
          opt_data |-> [ type |-> "RawData",
                         raw_data |-> Slice(e, 6 + data_length,
                                            6 + data_length + optionnal_data_length) ],
          crc_header |-> crc_header,
          crc_data   |-> crc_data ] ]

\* esp3_of_enocean_message
esp3_of_enocean_message(e) ==
    IF Len(e) = 0 THEN ParsePanic                       \* em[0]
    ELSE IF At(e, 0) # SYNC THEN ParseErr("NoSyncByte", 0, e)
    ELSE IF Len(e) <= 7 THEN ParseErr("IncompleteMessage", -1, e)
    ELSE
    LET crc_header            == At(e, 5)
        data_length           == At(e, 1) * 256 + At(e, 2)
        optionnal_data_length == At(e, 3)
        body_end              == 6 + data_length + optionnal_data_length
    IN  IF compute_crc8(Slice(e, 1, 5)) # At(e, 5)
        THEN ParseErr("CrcMismatch", 5, e)
        ELSE IF Len(e) < data_length + optionnal_data_length + 7
        THEN ParseErr("IncompleteMessage", -1, e)
        ELSE
        LET crc_data == compute_crc8(Slice(e, 6, body_end)) IN
        IF crc_data # At(e, body_end)
        THEN ParseErr("CrcMismatch", At(e, body_end), e)
        ELSE IF At(e, 4) \notin KnownPacketTypes
        THEN ParseErr("Unimplemented", 4, e)
        ELSE IF At(e, 4) = 1
        THEN Erp1Arm(e, data_length, optionnal_data_length, crc_header, crc_data)
        ELSE IF At(e, 4) = 2
        THEN ResponseArm(e, data_length, optionnal_data_length, crc_header, crc_data)
        ELSE RawArm(e, data_length, optionnal_data_length, crc_header, crc_data)

\* enocean_message_of_esp3: `as u8` of an enum is its discriminant
enocean_message_of_esp3(esp3) ==
    LET header == << SYNC, (esp3.data_length \div 256) % 256,
                     esp3.data_length % 256, esp3.optionnal_data_length,
                     esp3.packet_type, esp3.crc_header >>
        d == esp3.data
        o == esp3.opt_data
        data == CASE d.type = "Erp1Data" ->
                       <<d.rorg>> \o d.payload \o d.sender_id \o <<d.status>>
                  [] d.type = "ResponseData" ->
                       <<d.return_code>> \o
                       (IF d.response_payload.some THEN d.response_payload.v ELSE <<>>)
                  [] d.type = "RawData" -> d.raw_data
        opt  == CASE o.type = "Erp1OptData" ->
                       <<o.subtel_num>> \o o.destination_id \o <<o.rssi, o.security_lvl>>
                  [] o.type = "RawData" -> o.raw_data
                  [] o.type = "None"    -> <<>>
    IN  header \o data \o opt \o <<esp3.crc_data>>

-----------------------------------------------------------------------------
(* packet.rs                                                               *)

\* the discriminants of ResponseCode (= enocean::ReturnCode)
ResponseCodes == (0..7) \cup {255}

DecodePanic == [ kind |-> "Panic" ]
DecodeErr(e, b) == [ kind |-> "Err", err |-> e, byte |-> b ]

\* Response::decode
Response_decode(fr) ==
    IF Len(fr.data) = 0 THEN DecodePanic                \* frame.data[0]
    ELSE IF At(fr.data, 0) \notin ResponseCodes
    THEN DecodeErr("InvalidResultCode", At(fr.data, 0))
    ELSE [ kind |-> "Ok", code |-> At(fr.data, 0), data |-> From(fr.data, 1) ]

\* CommonCommand::assemble
CommonCommand_assemble(code, data, optional) ==
    assemble(5, <<code>> \o data, optional)

\* CommonCommand::encode
CommonCommand_encode(cmd) ==
    IF cmd.cmd = "ReadVersion"
    THEN CommonCommand_assemble(3, <<>>, <<>>)
    ELSE CommonCommand_assemble(cmd.code, cmd.data, cmd.optional)

ReadVersion == [type |-> "CommonCommand", cmd |-> "ReadVersion"]
CommonUnknown(code, data, optional) ==
    [type |-> "CommonCommand", cmd |-> "Unknown", code |-> code, data |-> data,
     optional |-> optional]

\* Packet::Response(Response { code, data })
PacketResponse(code, data) == [type |-> "Response", code |-> code, data |-> data]

\* Packet::Unknown { packet_type, data, optional }
PacketUnknown(packet_type, data, optional) ==
    [type |-> "Unknown", packet_type |-> packet_type, data |-> data,
     optional |-> optional]

EncodePanic == [ kind |-> "Panic" ]

\* Response::encode: todo!()
Response_encode(resp) == EncodePanic

\* Packet::encode
Packet_encode(p) ==
    CASE p.type = "CommonCommand" -> [kind |-> "Ok", frame |-> CommonCommand_encode(p)]
      [] p.type = "Response"      -> Response_encode(p)
      [] p.type = "Unknown"       ->
             [kind |-> "Ok", frame |-> assemble(p.packet_type, p.data, p.optional)]

\* Packet::decode
Packet_decode(fr) ==
    IF fr.packet_type = 2
    THEN LET r == Response_decode(fr)
         IN  IF r.kind = "Ok"
             THEN [kind |-> "Ok", packet |-> PacketResponse(r.code, r.data)]
             ELSE r
    ELSE DecodeErr("UnsupportedPacketType", 0)

-----------------------------------------------------------------------------
(* eep.rs                                                                  *)

\* get_eep: the profile registered for a sender id
get_eep(id) ==
    CASE id = <<5, 17, 114, 247>>    -> "A50401"
      [] id = <<254, 245, 143, 245>> -> "F60201"
      [] id = <<0, 49, 192, 249>>    -> "F60202"
      [] id = <<5, 10, 61, 106>>     -> "D2010E"
      [] id = <<1, 146, 61, 168>>    -> "D50001"
      [] OTHER                       -> "None"

\* bit_of_byte
bit_of_byte(bit_nb, byte) == ((byte \div (2 ^ bit_nb)) % 2) # 0

\* bits_of_byte: value[7 - i] = bit i, so value[0] is the most significant bit
bits_of_byte(byte) == [j \in 1..8 |-> bit_of_byte(8 - j, byte)]

\* HashMap<String, String>
EmptyMap == [k \in {} |-> ""]

\* HashMap::insert: the value under an existing key is replaced
Insert(m, k, v) == [x \in (DOMAIN m) \cup {k} |-> IF x = k THEN v ELSE m[x]]

\* format!("{}", n) of an integer: its decimal digits
RECURSIVE Decimal(_)
Decimal(n) == IF n < 10 THEN <<n>> ELSE Append(Decimal(n \div 10), n % 10)

EepPanic == [ kind |-> "Panic" ]
EepOk(m) == [ kind |-> "Ok", map |-> m ]

\* format!("{}", b as f32 * 0.4) for b = 0..255: the f32 product, printed
\* with the fewest digits that give the same f32 back
HUM_TABLE ==
    << "0", "0.4", "0.8", "1.2", "1.6", "2", "2.4", "2.8",
       "3.2", "3.6000001", "4", "4.4", "4.8", "5.2000003", "5.6", "6",
       "6.4", "6.8", "7.2000003", "7.6", "8", "8.400001", "8.8", "9.2",
       "9.6", "10", "10.400001", "10.8", "11.2", "11.6", "12", "12.400001",
       "12.8", "13.2", "13.6", "14", "14.400001", "14.8", "15.2", "15.6",
       "16", "16.4", "16.800001", "17.2", "17.6", "18", "18.4", "18.800001",
       "19.2", "19.6", "20", "20.4", "20.800001", "21.2", "21.6", "22",
       "22.4", "22.800001", "23.2", "23.6", "24", "24.4", "24.800001", "25.2",
       "25.6", "26", "26.4", "26.800001", "27.2", "27.6", "28", "28.4",
       "28.800001", "29.2", "29.6", "30", "30.4", "30.800001", "31.2", "31.6",
       "32", "32.4", "32.8", "33.2", "33.600002", "34", "34.4", "34.8",
       "35.2", "35.600002", "36", "36.4", "36.8", "37.2", "37.600002", "38",
       "38.4", "38.8", "39.2", "39.600002", "40", "40.4", "40.8", "41.2",
       "41.600002", "42", "42.4", "42.8", "43.2", "43.600002", "44", "44.4",
       "44.8", "45.2", "45.600002", "46", "46.4", "46.8", "47.2", "47.600002",
       "48", "48.4", "48.8", "49.2", "49.600002", "50", "50.4", "50.8",
       "51.2", "51.600002", "52", "52.4", "52.8", "53.2", "53.600002", "54",
       "54.4", "54.8", "55.2", "55.600002", "56", "56.4", "56.8", "57.2",
       "57.600002", "58", "58.4", "58.8", "59.2", "59.600002", "60", "60.4",
       "60.8", "61.2", "61.600002", "62", "62.4", "62.8", "63.2", "63.600002",
       "64", "64.4", "64.8", "65.200005", "65.6", "66", "66.4", "66.8",
       "67.200005", "67.6", "68", "68.4", "68.8", "69.200005", "69.6", "70",
       "70.4", "70.8", "71.200005", "71.6", "72", "72.4", "72.8", "73.200005",
       "73.6", "74", "74.4", "74.8", "75.200005", "75.6", "76", "76.4",
       "76.8", "77.200005", "77.6", "78", "78.4", "78.8", "79.200005", "79.6",
       "80", "80.4", "80.8", "81.200005", "81.6", "82", "82.4", "82.8",
       "83.200005", "83.6", "84", "84.4", "84.8", "85.200005", "85.6", "86",
       "86.4", "86.8", "87.200005", "87.6", "88", "88.4", "88.8", "89.200005",
       "89.6", "90", "90.4", "90.8", "91.200005", "91.6", "92", "92.4",
       "92.8", "93.200005", "93.6", "94", "94.4", "94.8", "95.200005", "95.6",
       "96", "96.4", "96.8", "97.200005", "97.6", "98", "98.4", "98.8",
       "99.200005", "99.6", "100", "100.4", "100.8", "101.200005", "101.6", "102" >>

\* format!("{}", b as f32 * (40 as f32) / (250 as f32)) for b = 0..255
TMP_TABLE ==
    << "0", "0.16", "0.32", "0.48", "0.64", "0.8", "0.96", "1.12",
       "1.28", "1.44", "1.6", "1.76", "1.92", "2.08", "2.24", "2.4",
       "2.56", "2.72", "2.88", "3.04", "3.2", "3.36", "3.52", "3.68",
       "3.84", "4", "4.16", "4.32", "4.48", "4.64", "4.8", "4.96",
       "5.12", "5.28", "5.44", "5.6", "5.76", "5.92", "6.08", "6.24",
       "6.4", "6.56", "6.72", "6.88", "7.04", "7.2", "7.36", "7.52",
       "7.68", "7.84", "8", "8.16", "8.32", "8.48", "8.64", "8.8",
       "8.96", "9.12", "9.28", "9.44", "9.6", "9.76", "9.92", "10.08",
       "10.24", "10.4", "10.56", "10.72", "10.88", "11.04", "11.2", "11.36",
       "11.52", "11.68", "11.84", "12", "12.16", "12.32", "12.48", "12.64",
       "12.8", "12.96", "13.12", "13.28", "13.44", "13.6", "13.76", "13.92",
       "14.08", "14.24", "14.4", "14.56", "14.72", "14.88", "15.04", "15.2",
       "15.36", "15.52", "15.68", "15.84", "16", "16.16", "16.32", "16.48",
       "16.64", "16.8", "16.96", "17.12", "17.28", "17.44", "17.6", "17.76",
       "17.92", "18.08", "18.24", "18.4", "18.56", "18.72", "18.88", "19.04",
       "19.2", "19.36", "19.52", "19.68", "19.84", "20", "20.16", "20.32",
       "20.48", "20.64", "20.8", "20.96", "21.12", "21.28", "21.44", "21.6",
       "21.76", "21.92", "22.08", "22.24", "22.4", "22.56", "22.72", "22.88",
       "23.04", "23.2", "23.36", "23.52", "23.68", "23.84", "24", "24.16",
       "24.32", "24.48", "24.64", "24.8", "24.96", "25.12", "25.28", "25.44",
       "25.6", "25.76", "25.92", "26.08", "26.24", "26.4", "26.56", "26.72",
       "26.88", "27.04", "27.2", "27.36", "27.52", "27.68", "27.84", "28",
       "28.16", "28.32", "28.48", "28.64", "28.8", "28.96", "29.12", "29.28",
       "29.44", "29.6", "29.76", "29.92", "30.08", "30.24", "30.4", "30.56",
       "30.72", "30.88", "31.04", "31.2", "31.36", "31.52", "31.68", "31.84",
       "32", "32.16", "32.32", "32.48", "32.64", "32.8", "32.96", "33.12",
       "33.28", "33.44", "33.6", "33.76", "33.92", "34.08", "34.24", "34.4",
       "34.56", "34.72", "34.88", "35.04", "35.2", "35.36", "35.52", "35.68",
       "35.84", "36", "36.16", "36.32", "36.48", "36.64", "36.8", "36.96",
       "37.12", "37.28", "37.44", "37.6", "37.76", "37.92", "38.08", "38.24",
       "38.4", "38.56", "38.72", "38.88", "39.04", "39.2", "39.36", "39.52",
       "39.68", "39.84", "40", "40.16", "40.32", "40.48", "40.64", "40.8" >>

\* parse_a50401_data
parse_a50401_data(payload) ==
    IF Len(payload) < 4 THEN EepPanic               \* payload[1], [2], [3]
    ELSE
    LET m1 == Insert(EmptyMap, "HUM", HUM_TABLE[At(payload, 1) + 1])
        m2 == Insert(m1, "TMP", TMP_TABLE[At(payload, 2) + 1])
        m3 == Insert(m2, "LRNB", IF bit_of_byte(3, At(payload, 3))
                                 THEN "Data telegram" ELSE "Teach-in telegram")
        m4 == Insert(m3, "TSN", IF bit_of_byte(1, At(payload, 3))
                                THEN "Temperature sensor available"
                                ELSE "Temperature sensor not available")
    IN  EepOk(m4)

\* parse_d50001_data
parse_d50001_data(payload) ==
    IF Len(payload) < 1 THEN EepPanic               \* payload[0]
    ELSE
    LET m1 == Insert(EmptyMap, "LRNB", IF bit_of_byte(4, At(payload, 0))
                                       THEN "not pressed" ELSE "pressed")
        m2 == Insert(m1, "CO", IF bit_of_byte(7, At(payload, 0))
                               THEN "closed" ELSE "open")
    IN  EepOk(m2)

\* parse_f60201_data
parse_f60201_data(payload) ==
    IF Len(payload) < 1 THEN EepPanic               \* payload[0]
    ELSE
    LET m1 == Insert(EmptyMap, "LRNB", IF bit_of_byte(3, At(payload, 0))
                                       THEN "Data telegram" ELSE "Teach-in telegram")
        m2 == Insert(m1, "BTN", CASE At(payload, 0) = 112 -> "Pressed"
                                  [] At(payload, 0) = 0   -> "Released"
                                  [] OTHER                -> "Unknown")
    IN  EepOk(m2)

\* parse_f60202_data and parse_d201_data: the rocker / unit named by three bits
Rocker(b1, b2, b3) ==
    CASE ~b1 /\ ~b2 /\ ~b3 -> "A1"
      [] ~b1 /\ ~b2 /\ b3  -> "A0"
      [] ~b1 /\ b2 /\ ~b3  -> "B1"
      [] ~b1 /\ b2 /\ b3   -> "B0"
      [] OTHER             -> "Unknown"

\* parse_f60202_data: the fall-through arm of the second rocker inserts under
\* the key "R1"
parse_f60202_data(payload) ==
    IF Len(payload) < 1 THEN EepPanic               \* payload[0]
    ELSE
    LET payload_bits == bits_of_byte(At(payload, 0))
        r1 == Rocker(payload_bits[1], payload_bits[2], payload_bits[3])
        r2 == Rocker(payload_bits[5], payload_bits[6], payload_bits[7])
        m1 == Insert(EmptyMap, "R1", r1)
        m2 == Insert(m1, "EB", IF payload_bits[4] THEN "Pressed" ELSE "Released")
        m3 == IF r2 = "Unknown" THEN Insert(m2, "R1", "Unknown")
                                ELSE Insert(m2, "R2", r2)
        m4 == Insert(m3, "SA", IF payload_bits[8] THEN "2nd action valid"
                                                  ELSE "No 2nd action")
    IN  EepOk(m4)

\* the unit table with the two power units exchanged
Unit_PowerExchanged(b1, b2, b3) ==
    CASE ~b1 /\ ~b2 /\ ~b3 -> "Energy [Ws]"
      [] ~b1 /\ ~b2 /\ b3  -> "Energy [Wh]"
      [] ~b1 /\ b2 /\ ~b3  -> "Energy [KWh]"
      [] ~b1 /\ b2 /\ b3   -> "Power[KW]"
      [] b1 /\ ~b2 /\ ~b3  -> "Power[W]"
      [] OTHER             -> "Error"

\* parse_d201_data, lines 178-185
Unit(b1, b2, b3) ==
    CASE ~b1 /\ ~b2 /\ ~b3 -> "Energy [Ws]"
      [] ~b1 /\ ~b2 /\ b3  -> "Energy [Wh]"
      [] ~b1 /\ b2 /\ ~b3  -> "Energy [KWh]"
      [] ~b1 /\ b2 /\ b3   -> "Power[W]"
      [] b1 /\ ~b2 /\ ~b3  -> "Power[KW]"
      [] OTHER             -> "Error"

\* parse_d201_data, lines 217-229
OutputValue(v) ==
    CASE v = 0          -> "Output value : 0% or OFF"
      [] v = 127        -> "Output value : 1 to 100% or ON"
      [] v \in 1..100   -> "Not used"
      [] v \in 101..126 -> "Output value not valid / not set"
      [] OTHER          -> "Error"

\* parse_d201_data
parse_d201_data(payload) ==
    IF Len(payload) < 1 THEN EepPanic               \* payload[0]
    ELSE
    LET command_id == At(payload, 0) % 16 IN
    IF command_id = 7
    THEN IF Len(payload) < 6 THEN EepPanic          \* payload[1], [3], [4], [5]
         ELSE
         LET db4_bits == bits_of_byte(At(payload, 1))
             m1 == Insert(EmptyMap, "UN", Unit(db4_bits[1], db4_bits[2], db4_bits[3]))
             m2 == Insert(m1, "I/O", Decimal(At(payload, 1) % 32))
             m3 == Insert(m2, "MV", Decimal(At(payload, 5) + At(payload, 4) * 256
                                            + At(payload, 3) * 65536))
         IN  EepOk(m3)
    ELSE IF command_id = 4
    THEN IF Len(payload) < 3 THEN EepPanic          \* payload[2]
         ELSE
         LET db2_bits == bits_of_byte(At(payload, 0))
             m1 == Insert(EmptyMap, "PF",
                          IF db2_bits[1] THEN "Power Failure Detection enabled"
                          ELSE "Power Failure Detection disabled/not supported")
             m2 == Insert(m1, "PFD",
                          IF db2_bits[2] THEN "Power Failure Detected"
                          ELSE "Power Failure Detection disabled/not supported")
             m3 == Insert(m2, "OV", OutputValue(At(payload, 2) % 128))
         IN  EepOk(m3)
    ELSE EepOk(Insert(EmptyMap, "Error", "Bad CMD ID"))

\* parse_erp1_payload (the error's packet bytes are left out)
parse_erp1_payload(esp) ==
    IF esp.data.type = "Erp1Data"
    THEN LET eep     == get_eep(esp.data.sender_id)
             payload == esp.data.payload
         IN  CASE eep = "A50401" -> parse_a50401_data(payload)
               [] eep = "F60201" -> parse_f60201_data(payload)
               [] eep = "F60202" -> parse_f60202_data(payload)
               [] eep = "D2010E" -> parse_d201_data(payload)
               [] eep = "D50001" -> parse_d50001_data(payload)
               [] OTHER -> [kind |-> "Err", err |-> "Unimplemented",
                            message |-> "Unknown EEP", byte_index |-> -1]
    ELSE [kind |-> "Err", err |-> "Unimplemented",
          message |-> "Unknown or Unimplemented yet packet type", byte_index |-> 6]

\* create_smart_plug_command, lines 353-381: the data bytes of the command.
\* The DefaultConfig arm fills a vector of its own that shadows `data`.
SmartPlugData(command) ==
    CASE command = "Off"           -> <<210, 1, 0, 0>>
      [] command = "On"            -> <<210, 1, 0, 1>>
      [] command = "QueryEnergy"   -> <<210, 6, 0>>
      [] command = "QueryPower"    -> <<210, 6, 32>>
      [] command = "DefaultConfig" -> <<>>

\* the optional data addressed to every device
SmartPlugOptData_Broadcast(socket_id) == <<3, 255, 255, 255, 255, 255, 0>>

\* create_smart_plug_command, lines 387-390: the optional data
SmartPlugOptData(socket_id) == <<3>> \o socket_id \o <<255, 0>>

\* create_smart_plug_command
create_smart_plug_command(socket_id, command) ==
    LET usb_gw_id   == <<0, 0, 0, 0>>
        data        == SmartPlugData(command) \o usb_gw_id \o <<0>>
        data_length == Len(data) % 256
        opt_data    == SmartPlugOptData(socket_id)
        opt_len     == Len(opt_data) % 256
        header      == <<0, data_length, opt_len, 1>>
        crc_header  == compute_crc8(header)
        data2       == data \o opt_data       \* data.append(&mut opt_data)
        opt_data2   == <<>>                   \* ... which empties opt_data
        crc_data    == compute_crc8(data2)
        packet_     == <<SYNC>> \o header \o <<crc_header>> \o data2 \o opt_data2
                           \o <<crc_data>>
    IN  [ packet |-> packet_, result |-> esp3_of_enocean_message(packet_) ]

\* create_smart_plug_default_config_packet
create_smart_plug_default_config_packet(socket_id) ==
    LET usb_gw_id   == <<0, 0, 0, 0>>
        data        == <<210, 5, 160, 51, 0, 6, 1>> \o usb_gw_id \o <<0>>
        data_length == Len(data) % 256
        opt_data    == <<3>> \o socket_id \o <<255, 0>>
        opt_len     == Len(opt_data) % 256
        header      == <<0, data_length, opt_len, 1>>
        crc_header  == compute_crc8(header)
        data2       == data \o opt_data       \* data.append(&mut opt_data)
        opt_data2   == <<>>
        crc_data    == compute_crc8(data2)
        result_     == <<SYNC>> \o header \o <<crc_header>> \o data2 \o opt_data2
                           \o <<crc_data>>
    IN  [ packet |-> result_, result |-> esp3_of_enocean_message(result_) ]

\* the action codes exchanged
F602Action_Swapped(command) ==
    CASE command = "MoveBlindClosed" -> <<48>>
      [] command = "MoveBlindOpen"   -> <<16>>

\* create_f60201_telegram, lines 246-253: the action code of the command
F602Action(command) ==
    CASE command = "MoveBlindClosed" -> <<16>>
      [] command = "MoveBlindOpen"   -> <<48>>

\* create_f60201_telegram: the header is pushed as data length MSB, opt_len,
\* data_length, packet type
create_f60201_telegram(command) ==
    LET usb_gw_id   == <<0, 0, 0, 0>>
        data        == <<246>> \o F602Action(command) \o usb_gw_id \o <<48>>
        data_length == Len(data) % 256
        opt_data    == <<3, 255, 255, 255, 255, 255, 0>>
        opt_len     == Len(opt_data) % 256
        header      == <<0, opt_len, data_length, 1>>
        crc_header  == compute_crc8(header)
        data2       == data \o opt_data       \* data.append(&mut opt_data)
        opt_data2   == <<>>
        crc_data    == compute_crc8(data2)
        packet_     == <<SYNC>> \o header \o <<crc_header>> \o data2 \o opt_data2
                           \o <<crc_data>>
    IN  [ packet |-> packet_, result |-> esp3_of_enocean_message(packet_) ]

-----------------------------------------------------------------------------

(* Inputs of the frame harness                                             *)

MaxData    == 2     \* longest data section drawn
MaxOpt     == 1     \* longest optional-data section drawn
MaxGarbage == 2     \* most garbage bytes put before a frame
MaxCut     == 9     \* longest prefix kept when the line truncates a frame

\* 0x01 Radio-ERP1, 0x02 Response, 0x05 Common-Command, and two type bytes
\* (0xA7, 0xB2) equal to crc8 of 0x55 followed by the first three header bytes
\* of a one-byte-data resp. empty frame
PacketTypes  == {1, 2, 5, 167, 178}
DataBytes    == {0, 85}
OptBytes     == {1}
GarbageBytes == {0, 85}

SeqsUpTo(S, n) == UNION { [1..k -> S] : k \in 0..n }

FrameRef(pt, d, o) == [packet_type |-> pt, data |-> d, optional_data |-> o]

SmallRefs ==
    { FrameRef(pt, d, o) : pt \in PacketTypes, d \in SeqsUpTo(DataBytes, MaxData),
                           o \in SeqsUpTo(OptBytes, MaxOpt) }

\* one reference whose optional data does not fit the 8-bit length field
LongRef == FrameRef(1, <<0>>, Zeros(256))

\* A second, valid frame that may follow on the line
TailFrame == write_to(FrameRef(2, <<0>>, <<>>))

Muts ==
    { [op |-> o, at |-> 0] : o \in {"none", "flip_last", "flip_hcrc"} }
      \cup { [op |-> "cut", at |-> k] : k \in 0..MaxCut }

Noises ==
    { [pre |-> p, mut |-> m, post |-> t] :
        p \in SeqsUpTo(GarbageBytes, MaxGarbage), m \in Muts,
        t \in {<<>>, TailFrame} }

NoNoise == [pre |-> <<>>, mut |-> [op |-> "none", at |-> 0], post |-> <<>>]

Flip(b) == 255 - b      \* every bit of the byte inverted

Min(a, b) == IF a <= b THEN a ELSE b

\* what the line makes of the bytes of one frame
Mutate(bytes, m) ==
    CASE m.op = "none"      -> bytes
      [] m.op = "flip_last" -> [bytes EXCEPT ![Len(bytes)] = Flip(@)]
      [] m.op = "flip_hcrc" -> [bytes EXCEPT ![6] = Flip(@)]
      [] m.op = "nosync"    -> [bytes EXCEPT ![1] = SYNC - 1]
      [] m.op = "cut"       -> SubSeq(bytes, 1, Min(m.at, Len(bytes)))

OnLine(bytes, n) == n.pre \o Mutate(bytes, n.mut) \o n.post

NoResult == ReadResult("None", NoFrame, 0, 0, <<>>, 0)

-----------------------------------------------------------------------------
(* Idle values of the state the frame harness does not use                 *)

NoParsed == [kind |-> "None"]
NoPacket == [kind |-> "None"]
NoReturn == [kind |-> "None"]
IdleWp   == [pc |-> "idle", op |-> "none", cmd |-> 0, ret |-> NoReturn,
             q0 |-> <<>>, at |-> 0, ncalls |-> 0, nreads |-> 0]
None     == [some |-> FALSE, v |-> <<>>]
Some(x)  == [some |-> TRUE, v |-> x]
IdleComm == [ stream |-> <<>>, frames |-> <<>>, incomplete_serial_buf |-> None,
              app |-> <<>>, out |-> <<>>, written |-> <<>>, alive |-> TRUE,
              nsent |-> 0, cmds |-> <<>> ]

NoPkt    == [type |-> "None"]
NoBack   == [kind |-> "None"]
NoReq    == [fn |-> "None"]
NoFields == [kind |-> "None"]
EepIdle  == pkt = NoPkt /\ back = NoBack /\ req = NoReq /\ fields = NoFields
MsgIdle  == em = <<>> /\ parsed = NoParsed /\ packet = NoPacket /\ EepIdle
PortIdle ==
    /\ port = <<>> /\ rxlog = <<>> /\ sent = <<>> /\ gateway = 0
    /\ queue = <<>> /\ wp = IdleWp
CommIdle == comm = IdleComm
FrameIdle ==
    /\ call = FrameRef(0, <<>>, <<>>) /\ noise = NoNoise /\ frame = NoFrame
    /\ writer = <<>> /\ reader = <<>> /\ result = NoResult /\ nread = 0

-----------------------------------------------------------------------------
(* Frame harness: write a frame, let the line carry it, read frames back   *)

InitFrame ==
    /\ pc = "write"
    /\ \/ call \in SmallRefs /\ noise \in Noises
       \/ call = LongRef /\ noise = NoNoise
    /\ frame = NoFrame
    /\ writer = <<>>
    /\ reader = <<>>
    /\ result = NoResult
    /\ nread = 0
    /\ MsgIdle /\ PortIdle /\ CommIdle

\* ESP3Frame::assemble(..) and ESP3FrameRef::write_to(&mut writer)
WriteTo ==
    /\ pc = "write"
    /\ frame' = assemble(call.packet_type, call.data, call.optional_data)
    /\ writer' = writer \o write_to(call)
    /\ pc' = "line"
    /\ UNCHANGED <<call, noise, reader, result, nread, msgVars, portVars, comm>>

\* the line delivers the written bytes, as `noise` says, into the reader
Transmit ==
    /\ pc = "line"
    /\ reader' = OnLine(writer, noise)
    /\ pc' = "read"
    /\ UNCHANGED <<call, noise, frame, writer, result, nread, msgVars, portVars, comm>>

\* ESP3Frame::read_from(&mut reader)
ReadFrom ==
    /\ pc = "read"
    /\ LET r == read_from(reader) IN
        /\ result' = r
        /\ reader' = r.rest
        /\ pc' = CASE r.kind = "Hang" -> "hung"
                   [] r.kind = "EOF"  -> "done"
                   [] OTHER           -> "read"
    /\ nread' = nread + 1
    /\ UNCHANGED <<call, noise, frame, writer, msgVars, portVars, comm>>

NextFrame == WriteTo \/ Transmit \/ ReadFrom

Spec == InitFrame /\ [][NextFrame]_vars

-----------------------------------------------------------------------------
(* Message harness: one received byte vector, decoded by                   *)
(* esp3_of_enocean_message and by the frame / packet codec                 *)

MaxMsgData == 8     \* longest data section of a received message
MaxMsgCut  == 12    \* longest prefix kept when a message is truncated

\* 0x01 Radio-ERP1, 0x02 Response, 0x04 Event, 0x05 Common-Command, 0x08 (not
\* listed by get_packet_type)
MsgPacketTypes == {1, 2, 4, 5, 8}
\* first data byte: return code Ok, RORG 0xF6, RORG 0xA5, 0x09 (no return code)
MsgFirstBytes  == {0, 246, 165, 9}
MsgOptLens     == {0, 1, 7}

MsgData(b0, n) == [i \in 1..n |-> IF i = 1 THEN b0 ELSE 10 + i]
MsgOpt(n)      == [i \in 1..n |-> 100 + i]

MsgRefs ==
    { FrameRef(pt, MsgData(b0, n), MsgOpt(k)) :
        pt \in MsgPacketTypes, b0 \in MsgFirstBytes, n \in 0..MaxMsgData,
        k \in MsgOptLens }

MsgMuts ==
    { [op |-> o, at |-> 0] : o \in {"none", "flip_last", "flip_hcrc", "nosync"} }
      \cup { [op |-> "cut", at |-> k] : k \in 0..MaxMsgCut }

MsgNoises ==
    { [pre |-> <<>>, mut |-> m, post |-> t] : m \in MsgMuts, t \in {<<>>, TailFrame} }

InitMsg ==
    /\ pc = "parse"
    /\ call \in MsgRefs
    /\ noise \in MsgNoises
    /\ em = OnLine(write_to(call), noise)
    /\ parsed = NoParsed
    /\ packet = NoPacket
    /\ EepIdle
    /\ frame = NoFrame /\ writer = <<>> /\ reader = em
    /\ result = NoResult /\ nread = 0
    /\ PortIdle /\ CommIdle

\* esp3_of_enocean_message(em)
ParseMsg ==
    /\ pc = "parse"
    /\ parsed' = esp3_of_enocean_message(em)
    /\ pc' = "frame"
    /\ UNCHANGED <<frameVars, em, packet, pkt, back, req, fields, portVars, comm>>

\* enocean_message_of_esp3(&esp3) on the ESP3 that was parsed
Serialize ==
    /\ parsed.kind = "Ok"
    /\ back = NoBack
    /\ back' = [kind |-> "Ok", bytes |-> enocean_message_of_esp3(parsed.esp3)]
    /\ UNCHANGED <<pc, frameVars, em, parsed, packet, pkt, req, fields, portVars, comm>>

\* ESP3Frame::read_from(&mut &em[..])
ReadMsgFrame ==
    /\ pc = "frame"
    /\ LET r == read_from(reader) IN
        /\ result' = r
        /\ reader' = r.rest
        /\ pc' = IF r.kind = "Ok" THEN "decode" ELSE "done"
    /\ nread' = nread + 1
    /\ UNCHANGED <<call, noise, frame, writer, msgVars, portVars, comm>>

\* Response::decode(frame.as_ref())
DecodeResponse ==
    /\ pc = "decode"
    /\ packet' = Response_decode(as_ref(result.frame))
    /\ pc' = "done"
    /\ UNCHANGED <<frameVars, em, parsed, pkt, back, req, fields, portVars, comm>>

\* Packet::decode(frame.as_ref())
DecodePacket ==
    /\ pc = "decode"
    /\ packet' = Packet_decode(as_ref(result.frame))
    /\ pc' = "packet"
    /\ UNCHANGED <<frameVars, em, parsed, pkt, back, req, fields, portVars, comm>>

NextMsg == ParseMsg \/ Serialize \/ ReadMsgFrame \/ DecodeResponse \/ DecodePacket

SpecMsg == InitMsg /\ [][NextMsg]_vars

-----------------------------------------------------------------------------
(* port.rs: the blocking link.  The gateway answers the written commands   *)
(* in order, one Response each; radio telegrams and transport errors       *)
(* arrive in between.                                                      *)

MaxCalls  == 2      \* write_packet calls made
MaxFrames == 1      \* read_frame calls made
MaxUnits  == 3      \* telegrams and transport errors the line delivers

Cmds == { ReadVersion, CommonUnknown(8, <<>>, <<>>) }

\* the sub-command code a command frame carries
CmdCode(bytes) == bytes[7]

\* the radio telegram that arrives as n-th unit
Telegram(n) == write_to(FrameRef(1, <<n>>, <<>>))

\* the gateway's Response to a command: RET_OK and, as payload, the code of
\* the command it answers
ReplyTo(cmdbytes) == write_to(FrameRef(2, <<0, CmdCode(cmdbytes)>>, <<>>))

\* VecDeque::push_front, in place of push_back
push_front(q, f) == <<f>> \o q

\* VecDeque::push_back
push_back(q, f) == Append(q, f)

\* every frame counts as the reply
IsReply_Any(f) == TRUE

\* write_packet, line 66: the frame is the awaited reply
IsReply(f) == f.packet_type = 2

InitPort ==
    /\ pc = "port"
    /\ port = <<>>
    /\ rxlog = <<>>
    /\ sent = <<>>
    /\ gateway = 0
    /\ queue = <<>>
    /\ wp = IdleWp
    /\ FrameIdle /\ MsgIdle /\ CommIdle

Arrive(items) ==
    /\ port' = port \o items
    /\ rxlog' = rxlog \o items

\* The line as the sequence of units it was given: a transport event, or a
\* frame as long as its header says
RECURSIVE Units(_)
Units(items) ==
    IF items = <<>> THEN <<>>
    ELSE IF ~IsByte(Head(items)) THEN <<<<Head(items)>>>> \o Units(Tail(items))
    ELSE IF Len(items) < 6 THEN <<items>>
    ELSE LET n == Min(Len(items), 6 + items[2] * 256 + items[3] + items[4] + 1)
         IN  <<SubSeq(items, 1, n)>> \o Units(SubSeq(items, n + 1, Len(items)))

\* telegrams and transport errors delivered so far (all but the Responses)
UnitsArrived == Len(Units(rxlog)) - gateway

\* a radio telegram arrives, intact or with a damaged data CRC
TelegramArrives ==
    /\ UnitsArrived < MaxUnits
    /\ \E m \in {"none", "flip_last"} :
          Arrive(Mutate(Telegram(UnitsArrived + 1), [op |-> m, at |-> 0]))
    /\ UNCHANGED <<pc, frameVars, msgVars, sent, gateway, queue, wp, comm>>

\* the next read of the transport fails: with an I/O error, or because no
\* byte arrived within the port's timeout (Port::open leaves the timeout at
\* the builder's default)
TransportError ==
    /\ UnitsArrived < MaxUnits
    /\ \E e \in {IOERR, TIMEOUT} : Arrive(<<e>>)
    /\ UNCHANGED <<pc, frameVars, msgVars, sent, gateway, queue, wp, comm>>

\* the gateway answers the oldest command it has not answered yet
GatewayReplies ==
    /\ gateway < Len(sent)
    /\ Arrive(ReplyTo(sent[gateway + 1]))
    /\ gateway' = gateway + 1
    /\ UNCHANGED <<pc, frameVars, msgVars, sent, queue, wp, comm>>

Consumed == Len(rxlog) - Len(port)

\* Port::write_packet, lines 61-62: encode the packet and write its frame
WritePacket ==
    /\ wp.pc = "idle"
    /\ wp.ncalls < MaxCalls
    /\ \E p \in Cmds :
        LET f == CommonCommand_encode(p) IN
        /\ sent' = Append(sent, f.frame)
        /\ wp' = [wp EXCEPT !.pc = "reading", !.op = "write_packet",
                            !.cmd = CmdCode(f.frame), !.ret = NoReturn,
                            !.q0 = queue, !.at = Consumed,
                            !.ncalls = @ + 1]
    /\ UNCHANGED <<pc, frameVars, msgVars, port, rxlog, gateway, queue, comm>>

\* Port::write_packet, line 62: write_frame fails and `?` returns the error
WritePacketWriteFails ==
    /\ wp.pc = "idle"
    /\ wp.ncalls < MaxCalls
    /\ wp' = [wp EXCEPT !.op = "write_packet", !.cmd = 0,
                        !.ret = [kind |-> "Err", err |-> "IOError"],
                        !.q0 = queue, !.at = Consumed, !.ncalls = @ + 1]
    /\ UNCHANGED <<pc, frameVars, msgVars, port, rxlog, sent, gateway, queue, comm>>

FrameError(r) ==
    [kind |-> "Err", err |-> "FrameError", cause |-> r.kind, frame |-> r.frame.frame]

\* Port::write_packet, lines 64-73: one pass of the loop, blocking in
\* read_frame until the transport has something to deliver
WritePacketRead ==
    /\ wp.pc = "reading"
    /\ port # <<>>
    /\ LET r == read_from(port) IN
        /\ port' = r.rest
        /\ IF r.kind = "Hang"
           THEN /\ wp' = [wp EXCEPT !.pc = "hung"]
                /\ UNCHANGED queue
           ELSE IF r.kind # "Ok"
           THEN /\ wp' = [wp EXCEPT !.pc = "idle", !.ret = FrameError(r)]
                /\ UNCHANGED queue
           ELSE IF ~IsReply(r.frame)
           THEN /\ queue' = push_back(queue, r.frame)
                /\ UNCHANGED wp
           ELSE /\ wp' = [wp EXCEPT !.pc = "idle",
                                    !.ret = Response_decode(as_ref(r.frame))]
                /\ UNCHANGED queue
    /\ UNCHANGED <<pc, frameVars, msgVars, rxlog, sent, gateway, comm>>

\* Port::read_frame
ReadFrame ==
    /\ wp.pc = "idle"
    /\ wp.nreads < MaxFrames
    /\ port # <<>>
    /\ LET r == read_from(port) IN
        /\ port' = r.rest
        /\ wp' = [wp EXCEPT !.op = "read_frame", !.cmd = 0,
                            !.pc = IF r.kind = "Hang" THEN "hung" ELSE "idle",
                            !.ret = IF r.kind = "Ok"
                                    THEN [kind |-> "Ok", frame |-> r.frame]
                                    ELSE FrameError(r),
                            !.q0 = queue, !.at = Consumed, !.nreads = @ + 1]
    /\ UNCHANGED <<pc, frameVars, msgVars, rxlog, sent, gateway, queue, comm>>

NextPort ==
    \/ TelegramArrives \/ TransportError \/ GatewayReplies
    \/ WritePacket \/ WritePacketWriteFails \/ WritePacketRead \/ ReadFrame

SpecPort == InitPort /\ [][NextPort]_vars

-----------------------------------------------------------------------------
(* communicator.rs: the main loop of the I/O thread                        *)

SerialBufLen  == 100    \* serial_buf: the most bytes one read returns
MaxCommFrames == 2      \* frames in the inbound byte stream
MaxSend       == 1      \* commands the application sends

\* A Response, an Event and a Radio-ERP1 telegram (RORG 0xF6, one payload
\* byte, sender id, status; seven bytes of optional data)
CommFrames ==
    { write_to(FrameRef(2, <<0>>, <<>>)),
      write_to(FrameRef(4, <<1>>, <<>>)),
      write_to(FrameRef(1, <<246, 48, 0, 49, 192, 249, 48>>,
                           <<1, 255, 255, 255, 255, 51, 0>>)) }

\* the command the application sends: a Radio-ERP1 telegram as an ESP3 value
CommCommand ==
    esp3_of_enocean_message(
        write_to(FrameRef(1, <<246, 16, 0, 0, 0, 0, 48>>,
                             <<3, 255, 255, 255, 255, 255, 0>>))).esp3

\* a second command: the same telegram with payload byte 0x30
CommCommandOpen ==
    esp3_of_enocean_message(
        write_to(FrameRef(1, <<246, 48, 0, 0, 0, 0, 48>>,
                             <<3, 255, 255, 255, 255, 255, 0>>))).esp3

CommCommands == { CommCommand, CommCommandOpen }

RECURSIVE Concat(_)
Concat(ss) == IF ss = <<>> THEN <<>> ELSE Head(ss) \o Concat(Tail(ss))

\* get_raw_message
get_raw_message(e) == e

\* main loop, lines 101-130: a chunk without sync byte completes the saved one
Repair(c, e) ==
    LET buffer == c.incomplete_serial_buf.v \o e
        r      == esp3_of_enocean_message(buffer)
    IN  CASE r.kind = "Panic" -> [c EXCEPT !.alive = FALSE]
          [] r.kind = "Ok"    -> [c EXCEPT !.app = Append(@, r.esp3),
                                           !.incomplete_serial_buf = None]
          [] OTHER            -> [c EXCEPT !.incomplete_serial_buf = None]

\* main loop, lines 73-142: what the thread does with the bytes of one read
Receive(c, chunk) ==
    LET r == esp3_of_enocean_message(get_raw_message(chunk)) IN
    CASE r.kind = "Panic" -> [c EXCEPT !.alive = FALSE]
      [] r.kind = "Ok"    -> [c EXCEPT !.app = Append(@, r.esp3)]
      [] r.kind = "Err" /\ r.err = "IncompleteMessage" ->
             [c EXCEPT !.incomplete_serial_buf = Some(r.packet)]
      [] r.kind = "Err" /\ r.err = "NoSyncByte" ->
             IF c.incomplete_serial_buf.some THEN Repair(c, r.packet) ELSE c
      [] OTHER -> c

\* main loop, lines 56-71: a command taken from the outbound channel is
\* printed; the write to the transport is commented out
TryRecv(c) == IF c.out = <<>> THEN c ELSE [c EXCEPT !.out = Tail(@)]

InitComm ==
    /\ pc = "comm"
    /\ \E fs \in UNION { [1..k -> CommFrames] : k \in 1..MaxCommFrames } :
          comm = [IdleComm EXCEPT !.stream = Concat(fs), !.frames = fs]
    /\ FrameIdle /\ MsgIdle /\ PortIdle

\* the application sends a command on the outbound channel
AppSend ==
    /\ comm.nsent < MaxSend
    /\ \E c \in CommCommands :
          comm' = [comm EXCEPT !.out = Append(@, c), !.cmds = Append(@, c),
                               !.nsent = @ + 1]
    /\ UNCHANGED <<pc, frameVars, msgVars, portVars>>

\* one pass of the main loop in which reader.read returns t bytes
LoopRead ==
    /\ comm.alive
    /\ \E t \in 1..Min(Len(comm.stream), SerialBufLen) :
          comm' = Receive([TryRecv(comm) EXCEPT !.stream = From(@, t)],
                          Slice(comm.stream, 0, t))
    /\ UNCHANGED <<pc, frameVars, msgVars, portVars>>

\* one pass of the main loop in which reader.read times out or fails
LoopNoData ==
    /\ comm.alive
    /\ comm' = TryRecv(comm)
    /\ UNCHANGED <<pc, frameVars, msgVars, portVars>>

NextComm == AppSend \/ LoopRead \/ LoopNoData

SpecComm == InitComm /\ [][NextComm]_vars

-----------------------------------------------------------------------------
(* Packet harness: a Packet is encoded and the frame decoded again         *)

MaxPktData == 2     \* longest data / optional section of a Packet drawn

\* 0x00 is a return code, 0x09 is none
PktBytes == {0, 9}

Packets ==
    { PacketResponse(c, d) : c \in ResponseCodes, d \in SeqsUpTo(PktBytes, MaxPktData) }
      \cup { ReadVersion }
      \cup { CommonUnknown(c, d, o) : c \in {3, 8}, d \in SeqsUpTo(PktBytes, MaxPktData),
                                      o \in SeqsUpTo(PktBytes, 1) }
      \cup { PacketUnknown(t, d, o) : t \in MsgPacketTypes,
                                      d \in SeqsUpTo(PktBytes, MaxPktData),
                                      o \in SeqsUpTo(PktBytes, 1) }

InitPkt ==
    /\ pc = "encode"
    /\ pkt \in Packets
    /\ em = <<>> /\ parsed = NoParsed /\ packet = NoPacket
    /\ back = NoBack /\ req = NoReq /\ fields = NoFields
    /\ FrameIdle /\ PortIdle /\ CommIdle

\* Packet::encode(&pkt)
EncodePacket ==
    /\ pc = "encode"
    /\ LET r == Packet_encode(pkt) IN
          IF r.kind = "Panic"
          THEN pc' = "panic" /\ UNCHANGED frame
          ELSE pc' = "encoded" /\ frame' = r.frame
    /\ UNCHANGED <<call, noise, writer, reader, result, nread, msgVars, portVars, comm>>

\* Packet::decode(frame.as_ref())
DecodeEncoded ==
    /\ pc = "encoded"
    /\ packet' = Packet_decode(as_ref(frame))
    /\ pc' = "decoded"
    /\ UNCHANGED <<frameVars, em, parsed, pkt, back, req, fields, portVars, comm>>

NextPkt == EncodePacket \/ DecodeEncoded

SpecPkt == InitPkt /\ [][NextPkt]_vars

-----------------------------------------------------------------------------

(* EEP harness: a telegram is received and its payload parsed, or a        *)
(* command telegram is created                                             *)

MaxPayload == 6     \* longest ERP1 payload of a received telegram

\* the five registered sender ids and an unregistered one
Senders ==
    { <<5, 17, 114, 247>>, <<254, 245, 143, 245>>, <<0, 49, 192, 249>>,
      <<5, 10, 61, 106>>, <<1, 146, 61, 168>>, <<1, 2, 3, 4>> }

\* first payload byte: D2-01 command ids 7 and 4, F6 pressed / released, 0x3A
PayloadFirst == {7, 4, 112, 0, 58}

TelegramPayload(b0, n) == [i \in 1..n |-> IF i = 1 THEN b0 ELSE 200 + i]

Telegrams ==
    { [fn |-> "telegram", sender |-> s, payload |-> TelegramPayload(b0, n)] :
        s \in Senders, b0 \in PayloadFirst, n \in 0..MaxPayload }

\* Telegrams of three profiles with every value of the byte that is decoded:
\* F6-02-02 (one payload byte), D2-01-0E command 0x07 (unit and channel byte,
\* measured value) and A5-04-01 (humidity, temperature, flags)
ProfileTelegrams ==
    { [fn |-> "telegram", sender |-> <<0, 49, 192, 249>>, payload |-> <<b>>] :
        b \in 0..255 }
    \cup
    { [fn |-> "telegram", sender |-> <<5, 10, 61, 106>>,
       payload |-> <<c, b, 0, mv[1], mv[2], mv[3]>>] :
        c \in {7, 23}, b \in 0..255, mv \in {<<0, 0, 19>>, <<1, 2, 3>>, <<255, 255, 255>>} }
    \cup
    { [fn |-> "telegram", sender |-> <<5, 17, 114, 247>>, payload |-> <<0, b, b, f>>] :
        b \in 0..255, f \in {0, 2, 8, 10} }
    \cup
    { [fn |-> "telegram", sender |-> <<5, 17, 114, 247>>,
       payload |-> <<0, 229, 204, 10>>] }

SocketBytes == {0, 106, 255}

D201CommandList == {"On", "Off", "QueryEnergy", "QueryPower", "DefaultConfig"}

SmartPlugCommands ==
    { [fn |-> "create_smart_plug_command", socket_id |-> id, command |-> c] :
        id \in [1..4 -> SocketBytes], c \in D201CommandList }

\* the RORG byte a profile's telegrams carry
RorgByteOf(sender) ==
    CASE get_eep(sender) = "A50401" -> 165
      [] get_eep(sender) = "D2010E" -> 210
      [] get_eep(sender) = "D50001" -> 213
      [] OTHER                      -> 246

\* the bytes of a received Radio-ERP1 telegram
TelegramBytes(t) ==
    write_to(FrameRef(1, <<RorgByteOf(t.sender)>> \o t.payload \o t.sender \o <<48>>,
                         <<1, 255, 255, 255, 255, 54, 0>>))

DefaultConfigPackets ==
    { [fn |-> "create_smart_plug_default_config_packet", socket_id |-> id] :
        id \in [1..4 -> SocketBytes] }

F602EmulateCommand == {"MoveBlindClosed", "MoveBlindOpen"}

F602Telegrams ==
    { [fn |-> "create_f60201_telegram", command |-> c] : c \in F602EmulateCommand }

InitEep ==
    /\ pc = "eep"
    /\ req \in Telegrams \cup ProfileTelegrams \cup SmartPlugCommands
                \cup DefaultConfigPackets \cup F602Telegrams
    /\ em = <<>> /\ parsed = NoParsed /\ packet = NoPacket
    /\ pkt = NoPkt /\ back = NoBack /\ fields = NoFields
    /\ FrameIdle /\ PortIdle /\ CommIdle

\* esp3_of_enocean_message on a received telegram
ReceiveTelegram ==
    /\ pc = "eep"
    /\ req.fn = "telegram"
    /\ em' = TelegramBytes(req)
    /\ parsed' = esp3_of_enocean_message(TelegramBytes(req))
    /\ pc' = "parsed"
    /\ UNCHANGED <<frameVars, packet, pkt, back, req, fields, portVars, comm>>

\* create_smart_plug_command(socket_id, command)
CreateSmartPlugCommand ==
    /\ pc = "eep"
    /\ req.fn = "create_smart_plug_command"
    /\ LET r == create_smart_plug_command(req.socket_id, req.command) IN
          /\ em' = r.packet
          /\ parsed' = r.result
    /\ pc' = "created"
    /\ UNCHANGED <<frameVars, packet, pkt, back, req, fields, portVars, comm>>

\* create_smart_plug_default_config_packet(socket_id)
CreateDefaultConfigPacket ==
    /\ pc = "eep"
    /\ req.fn = "create_smart_plug_default_config_packet"
    /\ LET r == create_smart_plug_default_config_packet(req.socket_id) IN
          /\ em' = r.packet
          /\ parsed' = r.result
    /\ pc' = "created"
    /\ UNCHANGED <<frameVars, packet, pkt, back, req, fields, portVars, comm>>

\* create_f60201_telegram(command)
CreateF60201Telegram ==
    /\ pc = "eep"
    /\ req.fn = "create_f60201_telegram"
    /\ LET r == create_f60201_telegram(req.command) IN
          /\ em' = r.packet
          /\ parsed' = r.result
    /\ pc' = "created"
    /\ UNCHANGED <<frameVars, packet, pkt, back, req, fields, portVars, comm>>

\* parse_erp1_payload(&esp3)
ParsePayload ==
    /\ pc \in {"parsed", "created"}
    /\ parsed.kind = "Ok"
    /\ fields' = parse_erp1_payload(parsed.esp3)
    /\ pc' = "done"
    /\ UNCHANGED <<frameVars, em, parsed, packet, pkt, back, req, portVars, comm>>

NextEep ==
    \/ ReceiveTelegram \/ CreateSmartPlugCommand \/ CreateDefaultConfigPacket
    \/ CreateF60201Telegram \/ ParsePayload

SpecEep == InitEep /\ [][NextEep]_vars

-----------------------------------------------------------------------------

(* Properties of the frame codec (specification Spec)                      *)

\* the four header bytes of a frame byte string
Hdr4(f) == SubSeq(f, 2, 5)
\* data ++ optional_data of a frame byte string
Body(f) == SubSeq(f, 7, Len(f) - 1)

CrcValid(f) ==
    /\ Len(f) >= 7
    /\ f[1] = SYNC
    /\ f[6] = compute_crc8(Hdr4(f))
    /\ Len(f) = 6 + f[2] * 256 + f[3] + f[4] + 1
    /\ f[Len(f)] = compute_crc8(Body(f))

\* C1: every frame read_from returns as Ok starts with 0x55, carries the crc8
\* of its four header bytes as header CRC and the crc8 of data ++
\* optional_data as last byte, and data() / optional_data() have the lengths
\* its header declares; so no frame with a failing CRC comes back as Ok.
C1_OkFrameIsCrcValid ==
    result.kind = "Ok" =>
        LET f == result.frame.frame IN
        /\ CrcValid(f)
        /\ Len(FrameData(result.frame)) = f[2] * 256 + f[3]
        /\ Len(FrameOptionalData(result.frame)) = f[4]
        /\ FrameData(result.frame) \o FrameOptionalData(result.frame) = Body(f)
        /\ result.frame.packet_type = f[5]

\* C1 witness: a frame with a broken header CRC was on the line, and a later
\* read returned a frame as Ok
C1_Witness ==
    /\ result.kind = "Ok"
    /\ noise.mut.op = "flip_hcrc"
    /\ result.skipped > 0

\* C2: what write_to emits for (packet_type, data, optional_data) has the
\* ESP3 layout with the lengths of data and optional_data in the header, and
\* read_from gives the same three pieces back; and a frame that read_from
\* accepted is written back byte for byte.
WireLayout(ref, bytes) ==
    /\ Len(bytes) = 6 + Len(ref.data) + Len(ref.optional_data) + 1
    /\ bytes[1] = SYNC
    /\ bytes[2] * 256 + bytes[3] = Len(ref.data)
    /\ bytes[4] = Len(ref.optional_data)
    /\ bytes[5] = ref.packet_type
    /\ bytes[6] = compute_crc8(Hdr4(bytes))
    /\ Body(bytes) = ref.data \o ref.optional_data
    /\ bytes[Len(bytes)] = compute_crc8(ref.data \o ref.optional_data)

C2_FrameRoundTrip ==
    /\ (pc # "write" /\ nread = 0) =>
          /\ WireLayout(call, writer)
          /\ frame.frame = writer
    /\ (nread = 1 /\ noise = NoNoise) =>
          /\ result.kind = "Ok"
          /\ as_ref(result.frame) = call
    /\ result.kind = "Ok" => write_to(as_ref(result.frame)) = result.frame.frame

\* C3: a read_from call on a stream that ends before a complete frame
\* returns, and what it returns is FrameReadError::EOF.  (No transport event
\* occurs on a slice reader, so an IOError here is read_exact's
\* UnexpectedEof.)
C3_EndOfStreamIsEOF ==
    result.kind \in {"Hang", "IOError", "EOF"} => result.kind = "EOF"

\* g ++ F, one garbage byte before an untouched valid frame, was read once
OneGarbageByteRead ==
    /\ nread = 1
    /\ Len(noise.pre) = 1
    /\ noise.mut.op = "none"

SameDecoded(r1, r2) ==
    /\ r1.kind = "Ok"
    /\ r2.kind = "Ok"
    /\ as_ref(r1.frame) = as_ref(r2.frame)

\* C4 as stated: for every valid frame F and every byte g, read_from(g ++ F)
\* returns Ok with the packet_type, data and optional_data of read_from(F).
C4_ResyncAnyByte ==
    OneGarbageByteRead => SameDecoded(result, read_from(writer))

\* g = 0x55 followed by the first five bytes of F passes the header check
FalseHeader(g, F) ==
    g = SYNC /\ compute_crc8(<<F[1], F[2], F[3], F[4]>>) = F[5]

\* C4 amended: the same, unless g is 0x55 and F's packet type byte equals
\* crc8(0x55, len_hi, len_lo, opt_len), so that g and the first five bytes of
\* F are themselves a CRC-valid header.
C4_ResyncUnlessFalseHeader ==
    (OneGarbageByteRead /\ ~FalseHeader(noise.pre[1], writer))
        => SameDecoded(result, read_from(writer))

\* C4 witness: the garbage byte was 0x55, it was skipped and F came back
C4_Witness ==
    /\ OneGarbageByteRead
    /\ noise.pre = <<SYNC>>
    /\ result.kind = "Ok"
    /\ result.skipped = 1
    /\ as_ref(result.frame) = call

\* the synchronization attempt at position j (counted from 1) of buf fails:
\* the byte is not 0x55, or it is and the five bytes after it are not a
\* header with its CRC
SyncFails(buf, j) ==
    /\ j <= Len(buf)
    /\ \/ buf[j] # SYNC
       \/ /\ j + 5 <= Len(buf)
          /\ compute_crc8(SubSeq(buf, j + 1, j + 4)) # buf[j + 5]

\* a step that is one call of read_from
ReadFromStep == pc = "read" /\ nread' = nread + 1

\* C26: the bytes read_from consumes while seeking are exactly the failed
\* synchronization attempts, one byte each: every skipped position is a
\* failed attempt, scanning stops at the first position that is not one, and
\* a failed attempt is never what the call returns: EOF comes only with the
\* whole stream consumed, and any other result with a CRC-valid header at
\* the position where scanning stopped (or, for a call that does not
\* return, a 0x55 with fewer than five bytes after it).
C26_FailedSyncConsumesOneByte ==
    [][ ReadFromStep =>
          LET s == result'.skipped IN
          /\ \A j \in 1..s : SyncFails(reader, j)
          /\ ~SyncFails(reader, s + 1)
          /\ result'.kind = "EOF" => (s = Len(reader) /\ reader' = <<>>)
          /\ result'.kind = "Hang" =>
                (reader' = From(reader, s) /\ reader[s + 1] = SYNC)
          /\ result'.kind \in {"Ok", "DataCRC", "IOError"} =>
                /\ s + 6 <= Len(reader)
                /\ reader[s + 1] = SYNC
                /\ compute_crc8(SubSeq(reader, s + 2, s + 5)) = reader[s + 6]
      ]_vars

\* C26 witness: two garbage bytes and a frame with a broken header CRC were
\* skipped byte by byte in one call, which returned the frame after them
C26_Witness ==
    /\ nread = 1
    /\ noise.pre = <<0, SYNC>>
    /\ noise.mut.op = "flip_hcrc"
    /\ noise.post = TailFrame
    /\ result.kind = "Ok"
    /\ result.frame.frame = TailFrame
    /\ result.skipped = 2 + Len(writer)

\* two valid frames back to back on the line, nothing else
BackToBack ==
    /\ call \in SmallRefs
    /\ noise.pre = <<>>
    /\ noise.mut.op = "none"
    /\ noise.post = TailFrame

\* C29: a read_from call that returns Ok or DataCRC has consumed the bytes
\* skipped while seeking and the 6 + data_length + optional_data_length + 1
\* bytes of the candidate frame, which are the frame it reports; the bytes
\* after them stay in the reader.  On two valid frames back to back the
\* first call returns the first and the second call the second.
C29_ReadConsumesOneFrame ==
    [][ ReadFromStep =>
          /\ result'.kind \in {"Ok", "DataCRC"} =>
                LET s  == result'.skipped
                    dl == reader[s + 2] * 256 + reader[s + 3]
                    ol == reader[s + 4]
                    n  == 6 + dl + ol + 1
                IN  /\ s + n <= Len(reader)
                    /\ result'.frame.frame = SubSeq(reader, s + 1, s + n)
                    /\ reader' = SubSeq(reader, s + n + 1, Len(reader))
          /\ BackToBack =>
                /\ nread' = 1 =>
                      /\ result'.kind = "Ok"
                      /\ result'.frame.frame = writer
                      /\ reader' = TailFrame
                /\ nread' = 2 =>
                      /\ result'.kind = "Ok"
                      /\ result'.frame.frame = TailFrame
                      /\ reader' = <<>>
      ]_vars

\* C29 witness: the second call on two back-to-back frames returned the
\* second frame and left the reader empty
C29_Witness ==
    /\ BackToBack
    /\ Len(call.data) = MaxData
    /\ nread = 2
    /\ result.kind = "Ok"
    /\ result.skipped = 0
    /\ result.frame.frame = TailFrame
    /\ reader = <<>>

\* C30: in every frame write_to / to_owned / assemble build, the 16-bit
\* data-length field and the 8-bit optional-length field of the header equal
\* data.len() and optional_data.len(), and the stored data_length and
\* optional_data_length of the ESP3Frame agree with its header bytes.
C30_HeaderLengthsNotTruncated ==
    pc # "write" =>
        /\ writer[2] * 256 + writer[3] = Len(call.data)
        /\ writer[4] = Len(call.optional_data)
        /\ to_owned(call).frame = writer
        /\ frame.data_length = frame.frame[2] * 256 + frame.frame[3]
        /\ frame.optional_data_length = frame.frame[4]

-----------------------------------------------------------------------------
(* Properties of the decoders (specification SpecMsg)                      *)

\* C5: a message with a valid header whose last byte is not the crc8 of data
\* ++ optional_data is reported as a data-CRC error carrying the received
\* bytes: CrcMismatch by esp3_of_enocean_message, DataCRC by read_from.
C5_BadDataCrcReported ==
    noise.mut.op = "flip_last" =>
        /\ parsed.kind # "None" =>
              /\ parsed.kind = "Err"
              /\ parsed.err = "CrcMismatch"
              /\ parsed.packet = em
        /\ result.kind # "None" =>
              /\ result.kind = "DataCRC"
              /\ result.frame.frame = Mutate(write_to(call), noise.mut)

\* C6: no decoder panics, whatever bytes it is given.
C6_NoPanic ==
    /\ parsed.kind # "Panic"
    /\ packet.kind # "Panic"


\* esp3_of_enocean_message rejected the message with this kind of error,
\* handing the input bytes back in the error
RejectedAs(kind) ==
    /\ parsed.kind = "Err"
    /\ parsed.err = kind
    /\ parsed.packet = em

\* C28: a message whose first byte is not 0x55 is rejected as NoSyncByte,
\* every non-empty proper prefix of a CRC-valid frame as IncompleteMessage,
\* and a complete message with a wrong header CRC byte or a wrong data CRC
\* byte as CrcMismatch; the error's packet field is the input.
C28_RejectionKinds ==
    (pc # "parse" /\ noise.pre = <<>> /\ noise.post = <<>>) =>
        /\ noise.mut.op = "nosync" => RejectedAs("NoSyncByte")
        /\ (noise.mut.op = "cut" /\ 0 < noise.mut.at
              /\ noise.mut.at < Len(write_to(call))) =>
                 RejectedAs("IncompleteMessage")
        /\ noise.mut.op \in {"flip_hcrc", "flip_last"} => RejectedAs("CrcMismatch")

-----------------------------------------------------------------------------
(* Properties of the blocking link (specification SpecPort)                *)

\* what the running or last Port call has consumed of the line
CallSegment == SubSeq(rxlog, wp.at + 1, Consumed)

IsEvent(u) == Len(u) = 1 /\ ~IsByte(u[1])

\* the ESP3Frame a valid frame unit is read as
AsFrame(u) ==
    [ packet_type |-> u[5], data_length |-> u[2] * 256 + u[3],
      optional_data_length |-> u[4], frame |-> u ]

\* the frames of units us[1..n], in order
FramesOf(us, n) == [i \in 1..n |-> AsFrame(us[i])]

AllTelegrams(us, n) ==
    \A i \in 1..n : ~IsEvent(us[i]) /\ CrcValid(us[i]) /\ us[i][5] # 2

WritePacketReturned(kind) ==
    wp.op = "write_packet" /\ wp.pc = "idle" /\ wp.ret.kind = kind

\* C7: a write_packet call that returns Ok wrote its command frame, then read
\* a run of non-Response frames followed by one Response and nothing after
\* it; it returns that Response, and the queue is what it was before the call
\* followed by those non-Response frames in arrival order.
C7_QueueThenReply ==
    WritePacketReturned("Ok") =>
        LET us == Units(CallSegment)
            n  == Len(us)
        IN  /\ n >= 1
            /\ sent # <<>> /\ CmdCode(sent[Len(sent)]) = wp.cmd
            /\ CrcValid(sent[Len(sent)])
            /\ AllTelegrams(us, n - 1)
            /\ CrcValid(us[n]) /\ us[n][5] = 2
            /\ wp.ret.code = us[n][7]
            /\ wp.ret.data = SubSeq(FrameData(AsFrame(us[n])), 2, us[n][3])
            /\ queue = wp.q0 \o FramesOf(us, n - 1)
            /\ port = SubSeq(rxlog, Consumed + 1, Len(rxlog))

\* C7 witness: a call returned Ok after queueing two telegrams, or one behind
\* a frame queued by an earlier call
C7_Witness ==
    /\ WritePacketReturned("Ok")
    /\ Len(queue) >= 2
    /\ Len(queue) > Len(wp.q0)

\* Responses the Port has read so far
RepliesRead ==
    LET us == Units(SubSeq(rxlog, 1, Consumed))
    IN  Cardinality({ i \in 1..Len(us) : ~IsEvent(us[i]) /\ CrcValid(us[i]) /\ us[i][5] = 2 })

\* C8: at most one written command still awaits its Response, and the
\* Response a write_packet call returns answers the command that call wrote.
C8_OneCommandInFlight ==
    /\ Len(sent) - RepliesRead <= 1
    /\ WritePacketReturned("Ok") => wp.ret.data = <<wp.cmd>>

\* C9: a write_packet call that ends on a failed read returns that error; it
\* has consumed a run of non-Response frames and then the unit that failed
\* (a frame with a bad data CRC, or the transport error), the queue is what it
\* was before the call followed by those frames in arrival order, and the
\* unread rest of the line is still in the Port for the next call.
C9_ReadFailureKeepsQueue ==
    (WritePacketReturned("Err") /\ wp.ret.err = "FrameError") =>
        LET us == Units(CallSegment)
            n  == Len(us)
        IN  /\ n >= 1
            /\ AllTelegrams(us, n - 1)
            /\ \/ wp.ret.cause = "IOError" /\ us[n] \in {<<IOERR>>, <<TIMEOUT>>}
               \/ /\ wp.ret.cause = "DataCRC"
                  /\ ~IsEvent(us[n]) /\ ~CrcValid(us[n])
                  /\ wp.ret.frame = us[n]
            /\ queue = wp.q0 \o FramesOf(us, n - 1)
            /\ port = SubSeq(rxlog, Consumed + 1, Len(rxlog))

\* C9 witness: the first call queued a telegram and failed on a bad data
\* CRC, and the call made after it returned a Response
C9_Witness ==
    /\ WritePacketReturned("Ok")
    /\ wp.ncalls = 2
    /\ LET us == Units(SubSeq(rxlog, 1, Consumed)) IN
          /\ Len(us) = 3
          /\ queue # <<>> /\ queue[1].frame = us[1]
          /\ ~IsEvent(us[2]) /\ ~CrcValid(us[2])


\* C16: the frames write_packet queued can be retrieved by the caller, each
\* once and in arrival order: a read_frame call (the one public operation
\* that returns a frame) made while frames are pending returns the oldest
\* pending frame and takes it off the queue.
C16_QueuedFramesRetrievable ==
    (wp.op = "read_frame" /\ wp.pc = "idle" /\ wp.q0 # <<>>) =>
        /\ wp.ret = [kind |-> "Ok", frame |-> wp.q0[1]]
        /\ queue = Tail(wp.q0)

\* the last Port call met a read of the transport that timed out
TimedOutInCall ==
    /\ wp.op \in {"write_packet", "read_frame"}
    /\ wp.pc = "idle"
    /\ CallSegment # <<>>
    /\ CallSegment[Len(CallSegment)] = TIMEOUT

\* C27: a read of the transport that times out with no data is not an error
\* to the caller of the blocking link: a read_frame or write_packet call
\* that met one does not return an error because of it, and a write_packet
\* call is not aborted by it.
C27_TimeoutIsNotAnError ==
    TimedOutInCall => wp.ret.kind # "Err"

-----------------------------------------------------------------------------
(* Properties of the communicator (specification SpecComm)                 *)

\* the packets the frames of the inbound stream decode to, in stream order
Expected == [i \in 1..Len(comm.frames) |-> esp3_of_enocean_message(comm.frames[i]).esp3]

IsPrefix(a, b) == Len(a) <= Len(b) /\ a = SubSeq(b, 1, Len(a))

\* C10: whatever way the reads split the inbound stream, the application
\* channel holds the packets of the stream's frames, each once and in stream
\* order: never anything else, and all of them once the stream is read.
C10_EveryFrameForwardedOnce ==
    /\ IsPrefix(comm.app, Expected)
    /\ comm.stream = <<>> => comm.app = Expected


\* the bytes the loop pass of this step got from reader.read (none when the
\* read timed out or failed)
ChunkRead == Slice(comm.stream, 0, Len(comm.stream) - Len(comm'.stream))

\* this step is one pass of the main loop that the thread survived
LoopPass == comm'.nsent = comm.nsent /\ comm'.alive

ChunkIsIncomplete(chunk) ==
    /\ chunk # <<>>
    /\ LET r == esp3_of_enocean_message(chunk)
       IN  r.kind = "Err" /\ r.err = "IncompleteMessage"

\* C11: after every pass of the main loop, incomplete_serial_buf holds the
\* chunk of that pass if the chunk failed with IncompleteMessage and is empty
\* otherwise: a saved chunk is created by IncompleteMessage only and does not
\* outlive the next read attempt, whatever that attempt's outcome.
C11_SavedChunkLivesOneRead ==
    [][ LoopPass =>
          IF ChunkIsIncomplete(ChunkRead)
          THEN comm'.incomplete_serial_buf = Some(ChunkRead)
          ELSE comm'.incomplete_serial_buf = None ]_vars


-----------------------------------------------------------------------------
(* Further properties of the decoders (specification SpecMsg)              *)

\* an intact frame whose packet type is none of the typed ones was received
UntypedFrameReceived ==
    noise.mut.op = "none" /\ call.packet_type \notin {1, 2, 5}

\* C12: an intact frame whose packet-type byte is not 0x01, 0x02 or 0x05
\* decodes to the raw / Unknown variant carrying its data and optional_data
\* verbatim, never to an error: esp3_of_enocean_message gives RawData for
\* both sections, Packet::decode gives Packet::Unknown.
C12_UnknownTypeDecodesRaw ==
    UntypedFrameReceived =>
        /\ parsed.kind # "None" =>
              /\ parsed.kind = "Ok"
              /\ parsed.esp3.data = [type |-> "RawData", raw_data |-> call.data]
              /\ parsed.esp3.opt_data =
                     [type |-> "RawData", raw_data |-> call.optional_data]
        /\ pc = "packet" =>
              packet = [ kind   |-> "Ok",
                         packet |-> PacketUnknown(call.packet_type, call.data,
                                                  call.optional_data) ]


\* C14: for every byte vector that esp3_of_enocean_message accepts,
\* enocean_message_of_esp3 of the resulting ESP3 is that byte vector again.
C14_DecodeEncodeReproducesBytes ==
    back.kind = "Ok" => back.bytes = em

\* an intact Radio-ERP1 frame with at least 6 data bytes and 7 optional bytes
\* went through esp3_of_enocean_message
Erp1Parsed ==
    /\ noise.mut.op = "none"
    /\ call.packet_type = 1
    /\ Len(call.data) >= 6
    /\ Len(call.optional_data) = 7
    /\ parsed.kind # "None"

\* C17: such a frame parses to an ESP3 of type RadioErp1 with rorg decoded
\* from data[0] (0xF6 Rps, 0xA5 Bs4), payload = the data_length - 6 bytes
\* after the RORG byte, sender_id = the four data bytes before the last one,
\* status = the last data byte, subtel_num, destination_id, rssi and security
\* level = optional_data[0], [1..5], [5], [6], and data_length,
\* optionnal_data_length and crc_header as in the header.
C17_Erp1FieldsDecoded ==
    Erp1Parsed =>
        LET n == Len(call.data)
            d == call.data
            o == call.optional_data
        IN  /\ parsed.kind = "Ok"
            /\ parsed.esp3.packet_type = PT_RadioErp1
            /\ parsed.esp3.data.type = "Erp1Data"
            /\ d[1] = 246 => parsed.esp3.data.rorg = Rorg_Rps
            /\ d[1] = 165 => parsed.esp3.data.rorg = Rorg_Bs4
            /\ parsed.esp3.data.payload = SubSeq(d, 2, n - 5)
            /\ parsed.esp3.data.sender_id = SubSeq(d, n - 4, n - 1)
            /\ parsed.esp3.data.status = d[n]
            /\ parsed.esp3.opt_data =
                   [ type |-> "Erp1OptData", subtel_num |-> o[1],
                     destination_id |-> SubSeq(o, 2, 5), rssi |-> o[6],
                     security_lvl |-> o[7] ]
            /\ parsed.esp3.data_length = n
            /\ parsed.esp3.optionnal_data_length = 7
            /\ parsed.esp3.crc_header = em[6]

\* C17 witness: a telegram of RORG 0xF6 with a two-byte payload was parsed
C17_Witness ==
    /\ Erp1Parsed
    /\ parsed.kind = "Ok"
    /\ call.data[1] = 246
    /\ Len(parsed.esp3.data.payload) = 2
    /\ parsed.esp3.data.sender_id = SubSeq(call.data, 4, 7)

\* C18: an intact Response frame with n >= 1 data bytes parses to Ok with
\* return_code = the code of data[0] (0x00..0x07, Undefined otherwise) and
\* response_payload = data[1..n], absent exactly when n = 1.
C18_ResponseFieldsDecoded ==
    ( /\ noise.mut.op = "none"
      /\ call.packet_type = 2
      /\ Len(call.data) >= 1
      /\ parsed.kind # "None" ) =>
        LET n == Len(call.data) IN
        /\ parsed.kind = "Ok"
        /\ parsed.esp3.data.type = "ResponseData"
        /\ parsed.esp3.data.return_code =
               (IF call.data[1] \in 0..7 THEN call.data[1] ELSE 255)
        /\ parsed.esp3.data.response_payload.some = (n > 1)
        /\ n > 1 => parsed.esp3.data.response_payload.v = SubSeq(call.data, 2, n)


-----------------------------------------------------------------------------
(* Properties of the send path of the communicator (specification SpecComm) *)

\* the commands the thread has taken from the outbound channel, in the order
\* the application sent them
Taken == SubSeq(comm.cmds, 1, Len(comm.cmds) - Len(comm.out))

\* C15: what the thread has written to the transport is the serialization of
\* each command it took from the outbound channel, one write per command, in
\* the order they were sent.
C15_TakenCommandsAreWritten ==
    comm.written = [i \in 1..Len(Taken) |-> enocean_message_of_esp3(Taken[i])]

-----------------------------------------------------------------------------
(* Properties of the packet codec (specification SpecPkt)                  *)

\* C13: Packet::encode returns a frame for every Packet without panicking,
\* and Packet::decode of that frame returns Ok with the original Packet.
C13_PacketRoundTrip ==
    /\ pc # "panic"
    /\ pc = "decoded" => packet = [kind |-> "Ok", packet |-> pkt]


-----------------------------------------------------------------------------
(* Properties of the equipment profiles (specification SpecEep)            *)

\* C19: parse_erp1_payload returns a value (a field map, or an Err for an
\* unregistered sender) for every telegram, whatever its sender and payload
\* length; it never panics.
C19_PayloadParseNeverPanics ==
    fields.kind # "Panic"

\* the bytes after the RORG that each command carries
SmartPlugBytes(command) ==
    CASE command = "On"          -> <<1, 0, 1>>
      [] command = "Off"         -> <<1, 0, 0>>
      [] command = "QueryPower"  -> <<6, 32>>
      [] command = "QueryEnergy" -> <<6, 0>>

\* create_smart_plug_command was called with On, Off, QueryPower or QueryEnergy
SmartPlugCommandCreated ==
    /\ pc \in {"created", "done"}
    /\ req.fn = "create_smart_plug_command"
    /\ req.command \in {"On", "Off", "QueryPower", "QueryEnergy"}

\* C20: for these four commands and every socket_id the result is Ok with a
\* Radio-ERP1 telegram of RORG VLD (0xD2) carrying the command's bytes after
\* the RORG, sender_id 00 00 00 00, status 0x00, optional data subtel_num 3,
\* destination_id = socket_id, rssi 0xFF, security level 0x00, and the bytes
\* built have a valid header CRC and data CRC.
C20_SmartPlugCommandTelegram ==
    SmartPlugCommandCreated =>
        /\ parsed.kind = "Ok"
        /\ parsed.esp3.packet_type = PT_RadioErp1
        /\ parsed.esp3.data =
               [ type |-> "Erp1Data", rorg |-> Rorg_Vld,
                 payload |-> SmartPlugBytes(req.command),
                 sender_id |-> <<0, 0, 0, 0>>, status |-> 0 ]
        /\ parsed.esp3.opt_data =
               [ type |-> "Erp1OptData", subtel_num |-> 3,
                 destination_id |-> req.socket_id, rssi |-> 255,
                 security_lvl |-> 0 ]
        /\ CrcValid(em)
        /\ em[2] * 256 + em[3] = 1 + Len(SmartPlugBytes(req.command)) + 5
        /\ em[4] = 7
        /\ parsed.esp3.crc_header = em[6]
        /\ parsed.esp3.crc_data = em[Len(em)]

\* C20 witness: QueryPower for socket 00 6A FF 6A was created
C20_Witness ==
    /\ SmartPlugCommandCreated
    /\ req.command = "QueryPower"
    /\ req.socket_id = <<0, 106, 255, 106>>
    /\ parsed.kind = "Ok"
    /\ parsed.esp3.opt_data.destination_id = <<0, 106, 255, 106>>
    /\ parsed.esp3.data.payload = <<6, 32>>


\* C21: create_smart_plug_command(socket_id, DefaultConfig) returns Ok with a
\* telegram whose data is D2 05 A0 33 00 06 01, sender id 00 00 00 00, status
\* 00: the packet create_smart_plug_default_config_packet(socket_id) returns.
C21_DefaultConfigSamePacket ==
    ( /\ pc \in {"created", "done"}
      /\ req.fn = "create_smart_plug_command"
      /\ req.command = "DefaultConfig" ) =>
        /\ parsed.kind = "Ok"
        /\ parsed.esp3.data =
               [ type |-> "Erp1Data", rorg |-> Rorg_Vld,
                 payload |-> <<5, 160, 51, 0, 6, 1>>,
                 sender_id |-> <<0, 0, 0, 0>>, status |-> 0 ]
        /\ parsed = create_smart_plug_default_config_packet(req.socket_id).result
        /\ em = create_smart_plug_default_config_packet(req.socket_id).packet


\* a telegram of the given profile's sender was received and its payload parsed
PayloadParsed(sender) ==
    /\ req.fn = "telegram"
    /\ req.sender = sender
    /\ fields.kind # "None"

\* the rocker action three bits name, most significant first, as a number
RockerOf(n) ==
    CASE n = 0 -> "A1" [] n = 1 -> "A0" [] n = 2 -> "B1" [] n = 3 -> "B0"
      [] OTHER -> "Unknown"

\* C22: for every payload byte b from the F6-02-02 sender the map has the
\* keys R1, EB, R2 and SA; R1 is named by bits 7..5 of b, EB by bit 4, R2 by
\* bits 3..1 with the same table, SA by bit 0.
C22_F60202Fields ==
    (PayloadParsed(<<0, 49, 192, 249>>) /\ Len(req.payload) = 1) =>
        LET b == req.payload[1] IN
        /\ fields.kind = "Ok"
        /\ DOMAIN fields.map = {"R1", "EB", "R2", "SA"}
        /\ fields.map["R1"] = RockerOf(b \div 32)
        /\ fields.map["EB"] = (IF (b \div 16) % 2 = 1 THEN "Pressed" ELSE "Released")
        /\ fields.map["R2"] = RockerOf((b \div 2) % 8)
        /\ fields.map["SA"] = (IF b % 2 = 1 THEN "2nd action valid" ELSE "No 2nd action")

\* the unit the three most significant bits name, as a number
UnitOf(n) ==
    CASE n = 0 -> "Energy [Ws]" [] n = 1 -> "Energy [Wh]" [] n = 2 -> "Energy [KWh]"
      [] n = 3 -> "Power[W]" [] n = 4 -> "Power[KW]" [] OTHER -> "Error"

\* C23: for a payload of at least 6 bytes from the D2-01-0E sender with
\* command id 0x07, UN is named by the three most significant bits of
\* payload[1], I/O is payload[1] & 0x1F and MV is payload[3] * 65536 +
\* payload[4] * 256 + payload[5], both in decimal; a command id other than
\* 0x07 and 0x04 gives the single entry Error = Bad CMD ID.
C23_D201Fields ==
    (PayloadParsed(<<5, 10, 61, 106>>) /\ Len(req.payload) >= 1) =>
        LET p   == req.payload
            cmd == p[1] % 16
        IN  /\ (cmd = 7 /\ Len(p) >= 6) =>
                  /\ fields.kind = "Ok"
                  /\ DOMAIN fields.map = {"UN", "I/O", "MV"}
                  /\ fields.map["UN"] = UnitOf(p[2] \div 32)
                  /\ fields.map["I/O"] = Decimal(p[2] % 32)
                  /\ fields.map["MV"] = Decimal(p[4] * 65536 + p[5] * 256 + p[6])
            /\ cmd \notin {7, 4} =>
                  fields = EepOk([k \in {"Error"} |-> "Bad CMD ID"])

\* C23 witness: the telemetry report 07 60 00 00 00 13 gave Power[W] and 19
C23_Witness ==
    /\ PayloadParsed(<<5, 10, 61, 106>>)
    /\ req.payload = <<7, 96, 0, 0, 0, 19>>
    /\ fields.kind = "Ok"
    /\ fields.map["UN"] = "Power[W]"
    /\ fields.map["MV"] = <<1, 9>>


\* the decimal numeral of n / 100 with trailing zeros of the fraction dropped
Hundredths(n) ==
    LET i == n \div 100
        f == n % 100
    IN  IF f = 0 THEN ToString(i)
        ELSE IF f % 10 = 0 THEN ToString(i) \o "." \o ToString(f \div 10)
        ELSE ToString(i) \o "." \o ToString(f \div 10) \o ToString(f % 10)

\* C24: for every 4-byte payload from the A5-04-01 sender, LRNB follows bit
\* 3 of payload[3], TSN follows bit 1 of payload[3], HUM is the value
\* payload[1] * 0.4 and TMP is the value payload[2] * 40 / 250.
C24_A50401Fields ==
    (PayloadParsed(<<5, 17, 114, 247>>) /\ Len(req.payload) = 4) =>
        LET p == req.payload IN
        /\ fields.kind = "Ok"
        /\ fields.map["LRNB"] = (IF (p[4] \div 8) % 2 = 1
                                 THEN "Data telegram" ELSE "Teach-in telegram")
        /\ fields.map["TSN"] = (IF (p[4] \div 2) % 2 = 1
                                THEN "Temperature sensor available"
                                ELSE "Temperature sensor not available")
        /\ fields.map["HUM"] = Hundredths(p[2] * 40)
        /\ fields.map["TMP"] = Hundredths(p[3] * 16)


\* create_f60201_telegram was called and has returned
F60201TelegramCreated ==
    /\ pc \in {"created", "done"}
    /\ req.fn = "create_f60201_telegram"

====
